---- MODULE Spec2Model ----
(***************************************************************************)
(* Model of app.py (FIFAlgorithm dashboard): the results/live scraping     *)
(* pipeline, the statistics engine and the market suggester.               *)
(*                                                                         *)
(* Text is a sequence of one-character strings.  An average is an exact    *)
(* fraction n/d (d > 0); the cut-offs of the source are written in         *)
(* hundredths, so "n/d >= 3.45" is 100*n >= 345*d.                         *)
(*                                                                         *)
(* The module holds several specifications over one set of variables; a    *)
(* specification leaves the variables of the other parts at their idle     *)
(* values.                                                                 *)
(***************************************************************************)
EXTENDS Integers, Sequences, FiniteSets, TLC

VARIABLES
    media,          \* market suggester: the pair <<a, b>> of averages (hundredths), a <= b
    sugestoes,      \* market suggester: the lines suggested for a and b ("" before the call)
    pc,             \* position of the render cycle (see Render cycle below)
    pagina_resultados,  \* what URL_RESULTADOS serves: [header, linhas]
    linhas_resultados,  \* extrair_dados_pagina(URL_RESULTADOS): [vazio, header, linhas]
    df_resultados,  \* the match table returned by buscar_resultados
    erro_resultados, \* whether buscar_resultados went through its except branch
    stats_jogador,  \* calcular_estatisticas_jogador(df_resultados, j, liga) for every j, liga
    df_stats_all_players,  \* the table of calcular_estatisticas_todos_jogadores
    recent,         \* get_recent_player_stats(df_resultados, p, n) for every p, n
    excecao,        \* the exception that left app() unhandled ("" when none did)
    http,           \* what a GET of each URL meets: "ok" or the RequestException raised
    gets,           \* the number of GETs issued to each URL
    pagina_ao_vivo, \* what URL_AO_VIVO serves: [largura, linhas]
    linhas_ao_vivo, \* extrair_dados_pagina(URL_AO_VIVO): [vazio, largura, linhas]
    df_live_clean,  \* the rows of the live table returned by carregar_dados_ao_vivo
    df_live_display, \* the rows of the display table returned with it
    saved_games,    \* st.session_state.saved_games: its columns and its rows
    aviso,          \* the message the last action of the saved-games tabs showed
    analise,        \* what the results analysis of the saved games drew
    lucro,          \* a bet and what calculate_profit returns for it at each odd
    ranking,        \* the last ranking asked of gerar_ranking and what it returned
    hint,           \* a player, an average in thousandths and the hint get_over_text gave
    previsao,       \* the rows of the table generate_ai_prediction shows
    erro_ao_vivo,   \* whether carregar_dados_ao_vivo went through its except branch
    agora,          \* cache: the clock, in seconds
    cache,          \* cache: the entries of the st.cache_data functions
    gets_em,        \* cache: for each URL the times of the GETs issued, oldest first
    exibido         \* cache: what the last render showed and whether it fetched

varsSug == <<media, sugestoes>>
varsRes == <<pc, pagina_resultados, linhas_resultados, df_resultados, erro_resultados>>
varsStats == <<stats_jogador, df_stats_all_players, recent>>
varsLive == <<http, gets, pagina_ao_vivo, linhas_ao_vivo, df_live_clean, df_live_display,
             erro_ao_vivo>>
varsSaved == <<saved_games, aviso, analise>>
varsLucro == <<lucro>>
varsRank == <<ranking>>
varsHint == <<hint>>
varsIA == <<previsao>>
varsCache == <<agora, cache, gets_em, exibido>>
vars == <<media, sugestoes, pc, pagina_resultados, linhas_resultados, df_resultados,
          erro_resultados, stats_jogador, df_stats_all_players, recent, excecao,
          http, gets, pagina_ao_vivo, linhas_ao_vivo, df_live_clean, df_live_display,
          erro_ao_vivo,
          saved_games, aviso, analise, lucro, ranking, hint, previsao,
          agora, cache, gets_em, exibido>>

\* The lines before the suggester has run.
SemSugestoes == [ft_a |-> "", ft_b |-> "", ht_a |-> "", ht_b |-> ""]

(***************************************************************************)
(* Text: a cell of a score column is a sequence of one-character strings   *)
(***************************************************************************)

\* Longest score cell drawn by the score-parsing specification.
MaxCellLen == 4

\* The characters score cells are drawn from: digits, the separator, a space, a
\* minus sign and the letters of "inf".
Chars == {"0", "1", "2", "x", " ", "-", "i", "n", "f"}

Digitos == {"0", "1", "2", "3", "4", "5", "6", "7", "8", "9"}

ValorDigito(c) ==
    CASE c = "0" -> 0 [] c = "1" -> 1 [] c = "2" -> 2 [] c = "3" -> 3 [] c = "4" -> 4
      [] c = "5" -> 5 [] c = "6" -> 6 [] c = "7" -> 7 [] c = "8" -> 8 [] c = "9" -> 9

EhSoDigitos(s) == Len(s) > 0 /\ \A i \in 1..Len(s) : s[i] \in Digitos

RECURSIVE ValorDigitos(_)
ValorDigitos(s) ==
    IF Len(s) = 0 THEN 0
    ELSE 10 * ValorDigitos(SubSeq(s, 1, Len(s) - 1)) + ValorDigito(s[Len(s)])

\* .str.replace(" ", "", regex=False)
SemEspacos(s) == SelectSeq(s, LAMBDA c : c # " ")

\* Index of the first "x" of s, 0 when there is none.
PrimeiroX(s) ==
    IF \E i \in 1..Len(s) : s[i] = "x"
    THEN CHOOSE i \in 1..Len(s) : s[i] = "x" /\ \A j \in 1..(i - 1) : s[j] # "x"
    ELSE 0

\* .str.split("x", n=1, expand=True).reindex(columns=[0, 1], fill_value=""): the two
\* sides of the first "x"; a cell without "x" has no second side (NaN or "", both of
\* which to_numeric coerces to NaN).
SplitX(s) ==
    LET p == PrimeiroX(s)
    IN  IF p = 0 THEN <<s, <<>> >>
        ELSE <<SubSeq(s, 1, p - 1), SubSeq(s, p + 1, Len(s))>>

\* pd.to_numeric(., errors="coerce") of one text: an integer, an infinity ("inf",
\* "-inf") or NaN for anything it cannot parse.
NaN == [tipo |-> "nan", valor |-> 0]

to_numeric(s) ==
    IF EhSoDigitos(s) THEN [tipo |-> "int", valor |-> ValorDigitos(s)]
    ELSE IF Len(s) > 1 /\ s[1] = "-" /\ EhSoDigitos(Tail(s))
         THEN [tipo |-> "int", valor |-> 0 - ValorDigitos(Tail(s))]
    ELSE IF s \in {<<"i", "n", "f">>, <<"-", "i", "n", "f">>}
         THEN [tipo |-> "inf", valor |-> 0]
    ELSE NaN

\* One score cell through replace, split and to_numeric: the two sides.
LadosDoPlacar(cell) ==
    LET lados == SplitX(SemEspacos(cell))
    IN  <<to_numeric(lados[1]), to_numeric(lados[2])>>

\* .fillna(0).astype(int) raises on a column that holds an infinity.
AstypeIntFalha(cell) ==
    \E k \in 1..2 : LadosDoPlacar(cell)[k].tipo = "inf"

\* .fillna(0).astype(int) of one side: NaN becomes 0.
GolsDoLado(cell, k) ==
    LET n == LadosDoPlacar(cell)[k]
    IN  IF n.tipo = "int" THEN n.valor ELSE 0

(***************************************************************************)
(* Results normalizer: buscar_resultados                                   *)
(***************************************************************************)

\* The columns of the results page the normalizer knows.
ColunasPagina == {"Data", "Campeonato", "Jogador 1", "Jogador 2", "Placar HT", "Placar"}

\* ordem: the canonical columns of the match table.
ordem == {"Data", "Liga", "Mandante", "Visitante",
          "Mandante HT", "Visitante HT", "Total HT",
          "Mandante FT", "Visitante FT", "Total FT"}

\* df.rename(columns={...}) applied to a header.
RenomearColunas(header) ==
    { CASE c = "Campeonato" -> "Liga"
        [] c = "Jogador 1" -> "Mandante"
        [] c = "Jogador 2" -> "Visitante"
        [] c = "Placar" -> "Placar Final"
        [] OTHER -> c : c \in header }

\* mapa_ligas of buscar_resultados, as Series.replace applies it: a name outside the
\* map is kept.
mapa_ligas_resultados(liga) ==
    CASE liga = "GT League" -> "GT 12 Min"
      [] liga = "H2H 8m" -> "H2H 8 Min"
      [] liga = "Battle 8m" -> "Battle 8 Min"
      [] liga = "Battle 6m" -> "Volta 6 Min"
      [] OTHER -> liga

\* clean_name drops every parenthesis and what it holds; a player cell is the pair
\* <<text outside the parenthesis, text inside it>>.
clean_name(x) == x[1]

\* pd.DataFrame()
DataFrameVazio == [colunas |-> {}, linhas |-> <<>>]

\* df.empty: no column or no row.
DfEmpty(df) == df.colunas = {} \/ Len(df.linhas) = 0

\* The columns the table has after the score columns are split and the totals added.
ColunasComGols(cols) ==
    cols \cup (IF "Placar HT" \in cols THEN {"Mandante HT", "Visitante HT", "Total HT"} ELSE {})
         \cup (IF "Placar Final" \in cols THEN {"Mandante FT", "Visitante FT", "Total FT"} ELSE {})

\* One data row of the page as a row of the match table (a column the table lacks
\* holds a filler that is never read).
LinhaNormalizada(cols, l) ==
    LET mht == IF "Placar HT" \in cols THEN GolsDoLado(l.PlacarHT, 1) ELSE 0
        vht == IF "Placar HT" \in cols THEN GolsDoLado(l.PlacarHT, 2) ELSE 0
        mft == IF "Placar Final" \in cols THEN GolsDoLado(l.Placar, 1) ELSE 0
        vft == IF "Placar Final" \in cols THEN GolsDoLado(l.Placar, 2) ELSE 0
    IN  [Data |-> l.Data,
         Liga |-> mapa_ligas_resultados(l.Campeonato),
         Mandante |-> IF "Mandante" \in cols THEN clean_name(l.Jogador1) ELSE "",
         Visitante |-> IF "Visitante" \in cols THEN clean_name(l.Jogador2) ELSE "",
         Mandante_HT |-> mht, Visitante_HT |-> vht, Total_HT |-> mht + vht,
         Mandante_FT |-> mft, Visitante_FT |-> vft, Total_FT |-> mft + vft]

\* The body of the try block of buscar_resultados raises: df["Liga"] on a header
\* without the league column, or astype(int) on an infinite score.
ResultadosLevanta(lin) ==
    LET cols == RenomearColunas(lin.header)
    IN  \/ "Liga" \notin cols
        \/ /\ "Placar HT" \in cols
           /\ \E i \in 1..Len(lin.linhas) : AstypeIntFalha(lin.linhas[i].PlacarHT)
        \/ /\ "Placar Final" \in cols
           /\ \E i \in 1..Len(lin.linhas) : AstypeIntFalha(lin.linhas[i].Placar)

\* buscar_resultados on the rows extrair_dados_pagina returned.
buscar_resultados(lin) ==
    IF lin.vazio \/ ResultadosLevanta(lin) THEN DataFrameVazio
    ELSE LET cols == RenomearColunas(lin.header)
         IN  [colunas |-> ColunasComGols(cols) \cap ordem,
              linhas |-> [i \in 1..Len(lin.linhas) |-> LinhaNormalizada(cols, lin.linhas[i])]]

SemLinhas == [vazio |-> TRUE, header |-> {}, linhas |-> <<>>]

ResIdle ==
    /\ pc = "parado"
    /\ pagina_resultados = [header |-> {}, linhas |-> <<>>]
    /\ linhas_resultados = SemLinhas
    /\ df_resultados = DataFrameVazio
    /\ erro_resultados = FALSE

\* Step of the render cycle: buscar_resultados.
BuscarResultados ==
    /\ pc = "extraido"
    /\ df_resultados' = buscar_resultados(linhas_resultados)
    /\ erro_resultados' = (~linhas_resultados.vazio /\ ResultadosLevanta(linhas_resultados))
    /\ pc' = "resultados"
    /\ UNCHANGED <<pagina_resultados, linhas_resultados, excecao>>

(***************************************************************************)
(* Score parsing: buscar_resultados on one data row whose two score cells  *)
(* hold every text of up to MaxCellLen characters                          *)
(***************************************************************************)

RECURSIVE Textos(_)
Textos(n) ==
    IF n = 0 THEN {<<>>}
    ELSE LET menores == Textos(n - 1)
         IN  menores \cup {Append(t, c) : t \in {u \in menores : Len(u) = n - 1}, c \in Chars}

HeaderCompleto == ColunasPagina

LinhaComPlacar(ht, ft) ==
    [Data |-> "01/01", Campeonato |-> "GT League",
     Jogador1 |-> <<"Ana", "Real">>, Jogador2 |-> <<"Bia", "Barca">>,
     PlacarHT |-> ht, Placar |-> ft]

PlacarInit ==
    /\ pc = "extraido"
    /\ \E t \in Textos(MaxCellLen) :
          pagina_resultados = [header |-> HeaderCompleto, linhas |-> <<LinhaComPlacar(t, t)>>]
    /\ linhas_resultados = [vazio |-> FALSE, header |-> pagina_resultados.header,
                            linhas |-> pagina_resultados.linhas]
    /\ df_resultados = DataFrameVazio
    /\ erro_resultados = FALSE

(***************************************************************************)
(* Statistics engine                                                       *)
(***************************************************************************)

\* Longest match table drawn by the statistics specification.
MaxJogos == 3

Jogadores == {"Ana", "Bia"}
Ligas == {"GT 12 Min", "H2H 8 Min"}

\* zeros: the counters of calcular_estatisticas_jogador.
zeros ==
    [jogos_total |-> 0, gols_marcados |-> 0, gols_sofridos |-> 0,
     gols_marcados_ht |-> 0, gols_sofridos_ht |-> 0,
     over_05_ht_hits |-> 0, over_15_ht_hits |-> 0, over_25_ht_hits |-> 0, btts_ht_hits |-> 0,
     over_05_ft_hits |-> 0, over_15_ft_hits |-> 0, over_25_ft_hits |-> 0, over_35_ft_hits |-> 0,
     over_45_ft_hits |-> 0, over_55_ft_hits |-> 0, over_65_ft_hits |-> 0, btts_ft_hits |-> 0]

Um(b) == IF b THEN 1 ELSE 0

\* acum(jogo, casa): one match added to the counters s.
acum(s, jogo, casa) ==
    LET gf_ft == IF casa THEN jogo.Mandante_FT ELSE jogo.Visitante_FT
        ga_ft == IF casa THEN jogo.Visitante_FT ELSE jogo.Mandante_FT
        gf_ht == IF casa THEN jogo.Mandante_HT ELSE jogo.Visitante_HT
        ga_ht == IF casa THEN jogo.Visitante_HT ELSE jogo.Mandante_HT
        total_ht == jogo.Total_HT
        total_ft == jogo.Total_FT
    IN  [s EXCEPT
            !.gols_marcados = @ + gf_ft,
            !.gols_sofridos = @ + ga_ft,
            !.gols_marcados_ht = @ + gf_ht,
            !.gols_sofridos_ht = @ + ga_ht,
            !.over_05_ht_hits = @ + Um(total_ht > 0),
            !.over_15_ht_hits = @ + Um(total_ht > 1),
            !.over_25_ht_hits = @ + Um(total_ht > 2),
            !.btts_ht_hits = @ + Um(gf_ht > 0 /\ ga_ht > 0),
            !.over_05_ft_hits = @ + Um(total_ft > 0),
            !.over_15_ft_hits = @ + Um(total_ft > 1),
            !.over_25_ft_hits = @ + Um(total_ft > 2),
            !.over_35_ft_hits = @ + Um(total_ft > 3),
            !.over_45_ft_hits = @ + Um(total_ft > 4),
            !.over_55_ft_hits = @ + Um(total_ft > 5),
            !.over_65_ft_hits = @ + Um(total_ft > 6),
            !.btts_ft_hits = @ + Um(gf_ft > 0 /\ ga_ft > 0)]

\* for _, jogo in rows.iterrows(): acum(jogo, casa)
RECURSIVE AcumLinhas(_, _, _)
AcumLinhas(s, rows, casa) ==
    IF Len(rows) = 0 THEN s
    ELSE AcumLinhas(acum(s, Head(rows), casa), Tail(rows), casa)

\* The columns acum reads from a match.
ColunasDeGols == {"Mandante FT", "Visitante FT", "Mandante HT", "Visitante HT",
                  "Total HT", "Total FT"}

\* calcular_estatisticas_jogador raises KeyError: the table has a row and lacks a
\* column of the two filters, or acum is called on a table that lacks a goal column.
JogadorLevanta(df, jogador, liga) ==
    /\ ~DfEmpty(df)
    /\ \/ ~({"Mandante", "Visitante", "Liga"} \subseteq df.colunas)
       \/ /\ ~(ColunasDeGols \subseteq df.colunas)
          /\ \E i \in 1..Len(df.linhas) :
                 /\ df.linhas[i].Liga = liga
                 /\ df.linhas[i].Mandante = jogador \/ df.linhas[i].Visitante = jogador

\* calcular_estatisticas_jogador without the league in its two filters.
calcular_estatisticas_jogador_sem_liga(df, jogador, liga) ==
    IF DfEmpty(df) THEN zeros
    ELSE LET jm == SelectSeq(df.linhas, LAMBDA r : r.Mandante = jogador)
             jv == SelectSeq(df.linhas, LAMBDA r : r.Visitante = jogador)
             s0 == [zeros EXCEPT !.jogos_total = Len(jm) + Len(jv)]
         IN  AcumLinhas(AcumLinhas(s0, jm, TRUE), jv, FALSE)

\* calcular_estatisticas_jogador(df, jogador, liga), for a table with every column.
calcular_estatisticas_jogador(df, jogador, liga) ==
    IF DfEmpty(df) THEN zeros
    ELSE LET jm == SelectSeq(df.linhas, LAMBDA r : r.Mandante = jogador /\ r.Liga = liga)
             jv == SelectSeq(df.linhas, LAMBDA r : r.Visitante = jogador /\ r.Liga = liga)
             s0 == [zeros EXCEPT !.jogos_total = Len(jm) + Len(jv)]
         IN  AcumLinhas(AcumLinhas(s0, jm, TRUE), jv, FALSE)

\* The record a player gets on first appearance (the defaultdict factory).
novo_jogador ==
    [jogos_total |-> 0, vitorias |-> 0, derrotas |-> 0, empates |-> 0,
     gols_marcados |-> 0, gols_sofridos |-> 0, gols_marcados_ht |-> 0, gols_sofridos_ht |-> 0,
     clean_sheets |-> 0,
     over_05_ht_hits |-> 0, over_15_ht_hits |-> 0, over_25_ht_hits |-> 0, btts_ht_hits |-> 0,
     over_05_ft_hits |-> 0, over_15_ft_hits |-> 0, over_25_ft_hits |-> 0, over_35_ft_hits |-> 0,
     over_45_ft_hits |-> 0, over_55_ft_hits |-> 0, over_65_ft_hits |-> 0, btts_ft_hits |-> 0,
     under_25_ft_hits |-> 0]

\* jogador_stats: the players in order of first appearance, their counters and leagues.
SemJogadores == [nomes |-> <<>>, stats |-> <<>>, ligas |-> <<>>]

EstaEm(seq, x) == \E i \in 1..Len(seq) : seq[i] = x

Pos(seq, x) == CHOOSE i \in 1..Len(seq) : seq[i] = x

\* jogador_stats[j]: the default record is created on first access.
Acessa(js, j) ==
    IF EstaEm(js.nomes, j) THEN js
    ELSE [nomes |-> Append(js.nomes, j),
          stats |-> Append(js.stats, novo_jogador),
          ligas |-> Append(js.ligas, {})]

\* jogador_stats[j]["ligas_atuantes"].add(liga)
AddLiga(js, j, liga) ==
    LET t == Acessa(js, j)
    IN  [t EXCEPT !.ligas[Pos(t.nomes, j)] = @ \cup {liga}]

\* Lines 302-316: the counters of the home player after the match.
ProcessaMandante(c, row) ==
    LET mft == row.Mandante_FT
        vft == row.Visitante_FT
    IN  [c EXCEPT
            !.jogos_total = @ + 1,
            !.gols_marcados = @ + mft,
            !.gols_sofridos = @ + vft,
            !.gols_marcados_ht = @ + row.Mandante_HT,
            !.gols_sofridos_ht = @ + row.Visitante_HT,
            !.vitorias = @ + Um(mft > vft),
            !.derrotas = @ + Um(~(mft > vft) /\ mft < vft),
            !.empates = @ + Um(~(mft > vft) /\ ~(mft < vft)),
            !.clean_sheets = @ + Um(vft = 0)]

\* The away player counted as if at home.
ProcessaVisitante_como_mandante(c, row) == ProcessaMandante(c, row)

\* Lines 319-333: the counters of the away player after the match.
ProcessaVisitante(c, row) ==
    LET mft == row.Mandante_FT
        vft == row.Visitante_FT
    IN  [c EXCEPT
            !.jogos_total = @ + 1,
            !.gols_marcados = @ + vft,
            !.gols_sofridos = @ + mft,
            !.gols_marcados_ht = @ + row.Visitante_HT,
            !.gols_sofridos_ht = @ + row.Mandante_HT,
            !.vitorias = @ + Um(vft > mft),
            !.derrotas = @ + Um(~(vft > mft) /\ vft < mft),
            !.empates = @ + Um(~(vft > mft) /\ ~(vft < mft)),
            !.clean_sheets = @ + Um(mft = 0)]

\* ContaOvers with the 6.5 counter fed by the 0.5 test and no other counter.
ContaOvers_65_por_05(c, row) ==
    [c EXCEPT !.over_65_ft_hits = @ + Um(row.Total_FT > 0)]

\* Lines 336-384: the Over, Under and BTTS hits the match gives to one of its two
\* players (both get the same; an "if c: x += 1" is the increment Um(c)).
ContaOvers(c, row) ==
    LET total_ht == row.Total_HT
        total_ft == row.Total_FT
    IN  [c EXCEPT
            !.over_05_ht_hits = @ + Um(total_ht > 0),
            !.over_15_ht_hits = @ + Um(total_ht > 1),
            !.over_25_ht_hits = @ + Um(total_ht > 2),
            !.btts_ht_hits = @ + Um(row.Mandante_HT > 0 /\ row.Visitante_HT > 0),
            !.over_05_ft_hits = @ + Um(total_ft > 0),
            !.over_15_ft_hits = @ + Um(total_ft > 1),
            !.over_25_ft_hits = @ + Um(total_ft > 2),
            !.under_25_ft_hits = @ + Um(~(total_ft > 2)),
            !.over_35_ft_hits = @ + Um(total_ft > 3),
            !.over_45_ft_hits = @ + Um(total_ft > 4),
            !.over_55_ft_hits = @ + Um(total_ft > 5),
            !.over_65_ft_hits = @ + Um(total_ft > 6),
            !.btts_ft_hits = @ + Um(row.Mandante_FT > 0 /\ row.Visitante_FT > 0)]

\* One iteration of the loop over df_resultados.iterrows(): the home player's counters,
\* then the away player's, then the hits of both (the same record twice when the row
\* names one player on both sides).
ProcessaLinha(js, row) ==
    LET m == row.Mandante
        v == row.Visitante
        j0 == AddLiga(AddLiga(js, m, row.Liga), v, row.Liga)
        j1 == [j0 EXCEPT !.stats[Pos(j0.nomes, m)] = ProcessaMandante(@, row)]
        j2 == [j1 EXCEPT !.stats[Pos(j1.nomes, v)] = ProcessaVisitante(@, row)]
        j3 == [j2 EXCEPT !.stats[Pos(j2.nomes, m)] = ContaOvers(@, row)]
    IN  [j3 EXCEPT !.stats[Pos(j3.nomes, v)] = ContaOvers(@, row)]

\* jogador_stats after the rows of the table, in order.
RECURSIVE jogador_stats(_)
jogador_stats(rows) ==
    IF Len(rows) = 0 THEN SemJogadores
    ELSE ProcessaLinha(jogador_stats(SubSeq(rows, 1, Len(rows) - 1)), rows[Len(rows)])

\* (x / y).fillna(0) and (x / y * 100).fillna(0) as the exact fraction n/d: 0/0 is NaN
\* and becomes 0.
Fracao(n, d) == IF d = 0 THEN [n |-> 0, d |-> 1] ELSE [n |-> n, d |-> d]

Pct(hits, total) == Fracao(100 * hits, total)

\* One row of df_rankings_base: the counters and the derived columns.
LinhaRanking(js, i) ==
    LET c == js.stats[i]
        t == c.jogos_total
    IN  [Jogador |-> js.nomes[i], c |-> c, ligas_atuantes |-> js.ligas[i],
         Win_Rate |-> Pct(c.vitorias, t),
         Derrota_Rate |-> Pct(c.derrotas, t),
         Gols_Marcados_Media |-> Fracao(c.gols_marcados, t),
         Gols_Sofridos_Media |-> Fracao(c.gols_sofridos, t),
         Saldo_de_Gols |-> c.gols_marcados - c.gols_sofridos,
         Clean_Sheets |-> Pct(c.clean_sheets, t),
         Over_05_HT |-> Pct(c.over_05_ht_hits, t),
         Over_15_HT |-> Pct(c.over_15_ht_hits, t),
         Over_25_HT |-> Pct(c.over_25_ht_hits, t),
         BTTS_HT |-> Pct(c.btts_ht_hits, t),
         Over_05_FT |-> Pct(c.over_05_ft_hits, t),
         Over_15_FT |-> Pct(c.over_15_ft_hits, t),
         Over_25_FT |-> Pct(c.over_25_ft_hits, t),
         Over_35_FT |-> Pct(c.over_35_ft_hits, t),
         Over_45_FT |-> Pct(c.over_45_ft_hits, t),
         Over_55_FT |-> Pct(c.over_55_ft_hits, t),
         Over_65_FT |-> Pct(c.over_65_ft_hits, t),
         BTTS_FT |-> Pct(c.btts_ft_hits, t),
         Under_25_FT |-> Pct(c.under_25_ft_hits, t)]

\* The percentage columns of df_rankings_base.
ColunasPct == {"Win_Rate", "Derrota_Rate", "Clean_Sheets", "Over_05_HT", "Over_15_HT",
               "Over_25_HT", "BTTS_HT", "Over_05_FT", "Over_15_FT", "Over_25_FT",
               "Over_35_FT", "Over_45_FT", "Over_55_FT", "Over_65_FT", "BTTS_FT",
               "Under_25_FT"}

\* The columns the loop over df_resultados.iterrows() reads from a row.
ColunasLidasPorLinha == {"Mandante", "Visitante", "Liga",
                         "Mandante FT", "Visitante FT", "Mandante HT", "Visitante HT",
                         "Total HT", "Total FT"}

\* calcular_estatisticas_todos_jogadores raises KeyError: the table has a row and
\* lacks a column the loop reads (row["Mandante"] is the first).  The function has no
\* try block.
TodosLevanta(df) == ~DfEmpty(df) /\ ~(ColunasLidasPorLinha \subseteq df.colunas)

\* calcular_estatisticas_todos_jogadores(df_resultados), for a table with every column:
\* the rows of df_rankings_base (no row: pd.DataFrame()).
calcular_estatisticas_todos_jogadores(df) ==
    IF DfEmpty(df) THEN <<>>
    ELSE LET js == jogador_stats(df.linhas)
         IN  [i \in 1..Len(js.nomes) |-> LinhaRanking(js, i)]

\* stats: the dictionary get_recent_player_stats starts from (jogos_recentes is set
\* by the caller of this operator).
stats_iniciais ==
    [jogos_recentes |-> 0,
     gols_marcados_ft |-> 0, gols_sofridos_ft |-> 0, gols_marcados_ht |-> 0, gols_sofridos_ht |-> 0,
     over_05_ht_hits |-> 0, over_15_ht_hits |-> 0, over_25_ht_hits |-> 0, btts_ht_hits |-> 0,
     over_05_ft_hits |-> 0, over_15_ft_hits |-> 0, over_25_ft_hits |-> 0, over_35_ft_hits |-> 0,
     over_45_ft_hits |-> 0, over_55_ft_hits |-> 0, over_65_ft_hits |-> 0, btts_ft_hits |-> 0,
     under_25_ft_hits |-> 0,
     sequencia_vitorias |-> 0, sequencia_derrotas |-> 0, sequencia_empates |-> 0,
     sequencia_btts |-> 0, sequencia_over_25_ft |-> 0]

\* The keys of the dictionary before and after the averages and percentages are added.
ChavesContadores == DOMAIN stats_iniciais

ChavesPct == {"pct_over_05_ht", "pct_over_15_ht", "pct_over_25_ht", "pct_btts_ht",
              "pct_over_05_ft", "pct_over_15_ft", "pct_over_25_ft", "pct_over_35_ft",
              "pct_over_45_ft", "pct_over_55_ft", "pct_over_65_ft", "pct_btts_ft",
              "pct_under_25_ft"}

ChavesMedia == {"media_gols_marcados_ft", "media_gols_sofridos_ft",
                "media_gols_marcados_ht", "media_gols_sofridos_ht"}

\* player_games: the rows of the player, the last num_games of them (.tail).
player_games(df, player_name, num_games) ==
    LET dele == SelectSeq(df.linhas,
                          LAMBDA r : r.Mandante = player_name \/ r.Visitante = player_name)
    IN  IF Len(dele) <= num_games THEN dele
        ELSE SubSeq(dele, Len(dele) - num_games + 1, Len(dele))

Bool(b) == IF b THEN "True" ELSE "False"

\* A streak that is never restarted when the outcome changes.
Sequencia_sem_reinicio(anterior, segue, acerto) == anterior + Um(acerto)

\* The streak update: while the outcome is the one of the preceding row (or there is
\* no preceding row) a hit adds 1; when the outcome changes the streak restarts at 1
\* for a hit and at 0 otherwise.
Sequencia(anterior, segue, acerto) ==
    IF segue THEN anterior + Um(acerto) ELSE Um(acerto)

\* One iteration of "for idx, row in player_games.iterrows()": e holds stats and the
\* three last_* variables ("None" before the first row).
PassoRecente(e, row, player_name) ==
    LET st == e.stats
        is_home == row.Mandante = player_name
        gf_ft == IF is_home THEN row.Mandante_FT ELSE row.Visitante_FT
        ga_ft == IF is_home THEN row.Visitante_FT ELSE row.Mandante_FT
        gf_ht == IF is_home THEN row.Mandante_HT ELSE row.Visitante_HT
        ga_ht == IF is_home THEN row.Visitante_HT ELSE row.Mandante_HT
        total_ht == row.Total_HT
        total_ft == row.Total_FT
        btts_ft_current == gf_ft > 0 /\ ga_ft > 0
        over_25_ft_current == total_ft > 2
        current_result == IF gf_ft > ga_ft THEN "win" ELSE IF gf_ft < ga_ft THEN "loss" ELSE "draw"
        segue == e.last_result = "None" \/ current_result = e.last_result
        segue_btts == e.last_btts = "None" \/ Bool(btts_ft_current) = e.last_btts
        segue_over == e.last_over_25_ft = "None" \/ Bool(over_25_ft_current) = e.last_over_25_ft
    IN  [stats |-> [st EXCEPT
            !.gols_marcados_ft = @ + gf_ft,
            !.gols_sofridos_ft = @ + ga_ft,
            !.gols_marcados_ht = @ + gf_ht,
            !.gols_sofridos_ht = @ + ga_ht,
            !.over_05_ht_hits = @ + Um(total_ht > 0),
            !.over_15_ht_hits = @ + Um(total_ht > 1),
            !.over_25_ht_hits = @ + Um(total_ht > 2),
            !.btts_ht_hits = @ + Um(gf_ht > 0 /\ ga_ht > 0),
            !.over_05_ft_hits = @ + Um(total_ft > 0),
            !.over_15_ft_hits = @ + Um(total_ft > 1),
            !.over_25_ft_hits = @ + Um(total_ft > 2),
            !.under_25_ft_hits = @ + Um(~(total_ft > 2)),
            !.over_35_ft_hits = @ + Um(total_ft > 3),
            !.over_45_ft_hits = @ + Um(total_ft > 4),
            !.over_55_ft_hits = @ + Um(total_ft > 5),
            !.over_65_ft_hits = @ + Um(total_ft > 6),
            !.btts_ft_hits = @ + Um(btts_ft_current),
            !.sequencia_vitorias = Sequencia(@, segue, current_result = "win"),
            !.sequencia_derrotas = Sequencia(@, segue, current_result = "loss"),
            !.sequencia_empates = Sequencia(@, segue, current_result = "draw"),
            !.sequencia_btts = Sequencia(@, segue_btts, btts_ft_current),
            !.sequencia_over_25_ft = Sequencia(@, segue_over, over_25_ft_current)],
         last_result |-> current_result,
         last_btts |-> Bool(btts_ft_current),
         last_over_25_ft |-> Bool(over_25_ft_current)]

RECURSIVE LacoRecente(_, _, _)
LacoRecente(e, rows, player_name) ==
    IF Len(rows) = 0 THEN e
    ELSE LacoRecente(PassoRecente(e, Head(rows), player_name), Tail(rows), player_name)

\* The averages and percentages added after the loop, as exact fractions.  The branch
\* for total_jogos = 0 is never taken (an empty window has returned {} before it); it
\* zeroes the counters and adds no key, so the value 0 here is a filler.
MediasEPcts(st) ==
    LET t == st.jogos_recentes
        F(n) == IF t > 0 THEN [n |-> n, d |-> t] ELSE [n |-> 0, d |-> 1]
    IN  [media_gols_marcados_ft |-> F(st.gols_marcados_ft),
         media_gols_sofridos_ft |-> F(st.gols_sofridos_ft),
         media_gols_marcados_ht |-> F(st.gols_marcados_ht),
         media_gols_sofridos_ht |-> F(st.gols_sofridos_ht),
         pct_over_05_ht |-> F(100 * st.over_05_ht_hits),
         pct_over_15_ht |-> F(100 * st.over_15_ht_hits),
         pct_over_25_ht |-> F(100 * st.over_25_ht_hits),
         pct_btts_ht |-> F(100 * st.btts_ht_hits),
         pct_over_05_ft |-> F(100 * st.over_05_ft_hits),
         pct_over_15_ft |-> F(100 * st.over_15_ft_hits),
         pct_over_25_ft |-> F(100 * st.over_25_ft_hits),
         pct_over_35_ft |-> F(100 * st.over_35_ft_hits),
         pct_over_45_ft |-> F(100 * st.over_45_ft_hits),
         pct_over_55_ft |-> F(100 * st.over_55_ft_hits),
         pct_over_65_ft |-> F(100 * st.over_65_ft_hits),
         pct_btts_ft |-> F(100 * st.btts_ft_hits),
         pct_under_25_ft |-> F(100 * st.under_25_ft_hits)]

\* get_recent_player_stats(df_resultados, player_name, num_games): the keys of the
\* returned dictionary, its counters and its derived values.  An empty window returns
\* {} before anything is computed (the values then are fillers that no key names).
get_recent_player_stats(df, player_name, num_games) ==
    LET games == player_games(df, player_name, num_games)
    IN  IF Len(games) = 0
        THEN [chaves |-> {}, stats |-> stats_iniciais, derivados |-> MediasEPcts(stats_iniciais)]
        ELSE LET e0 == [stats |-> [stats_iniciais EXCEPT !.jogos_recentes = Len(games)],
                        last_result |-> "None", last_btts |-> "None",
                        last_over_25_ft |-> "None"]
                 st == LacoRecente(e0, games, player_name).stats
             IN  [chaves |-> ChavesContadores \cup ChavesMedia \cup ChavesPct,
                  stats |-> st, derivados |-> MediasEPcts(st)]

\* cor_icon: the two hit ratios (0 when the total is 0) and the icon.
RatioCorIcon(h, t) == IF t # 0 THEN [n |-> h, d |-> t] ELSE [n |-> 0, d |-> 1]

cor_icon(h_m, t_m, h_v, t_v) ==
    LET pct_m == RatioCorIcon(h_m, t_m)
        pct_v == RatioCorIcon(h_v, t_v)
    IN  IF 100 * pct_m.n >= 70 * pct_m.d /\ 100 * pct_v.n >= 70 * pct_v.d THEN "verde"
        ELSE IF 100 * pct_m.n >= 60 * pct_m.d /\ 100 * pct_v.n >= 60 * pct_v.d THEN "amarelo"
        ELSE "vermelho"

(***************************************************************************)
(* The statistics engine on every match table of up to MaxJogos rows       *)
(***************************************************************************)

Partida(c, p) ==
    [Data |-> "01/01", Liga |-> c[1], Mandante |-> c[2], Visitante |-> c[3],
     Mandante_HT |-> p[1], Visitante_HT |-> p[2], Total_HT |-> p[1] + p[2],
     Mandante_FT |-> p[3], Visitante_FT |-> p[4], Total_FT |-> p[3] + p[4]]

\* Scores <<Mandante HT, Visitante HT, Mandante FT, Visitante FT>>: one for each full-time
\* total from 0 to 7, half-time totals from 0 to 3, and one with the negative side that
\* buscar_resultados lets through.
Placares == {<<0, 0, 0, 0>>, <<0, 0, 1, 0>>, <<1, 1, 1, 1>>, <<1, 0, 2, 1>>,
             <<0, 1, 0, 4>>, <<2, 1, 3, 2>>, <<1, 1, 7, -1>>, <<2, 1, 4, 3>>}

\* The rows of the match tables: Ana against Bia in one league with every score; the
\* return match in another league and a row that names Ana on both sides (clean_name
\* keeps the text outside the parenthesis only, so "Ana (Real)" and "Ana (Barca)" are
\* one name) with two scores each.
Partidas ==
    {Partida(<<"GT 12 Min", "Ana", "Bia">>, p) : p \in Placares}
    \cup {Partida(c, p) : c \in {<<"H2H 8 Min", "Bia", "Ana">>, <<"GT 12 Min", "Ana", "Ana">>},
                          p \in {<<1, 0, 2, 1>>, <<0, 1, 0, 4>>}}

\* The match tables of up to n rows drawn from the set linhas.
RECURSIVE Tabelas(_, _)
Tabelas(n, linhas) ==
    IF n = 0 THEN {<<>>}
    ELSE LET menores == Tabelas(n - 1, linhas)
         IN  menores \cup {Append(t, r) : t \in {u \in menores : Len(u) = n - 1}, r \in linhas}

\* The table buscar_resultados returns for the rows t.
DfDe(t) == IF Len(t) = 0 THEN DataFrameVazio ELSE [colunas |-> ordem, linhas |-> t]

\* The players the dashboard asks about: those of the table and one who never played.
JogadoresConsulta == Jogadores \cup {"Caio"}

Consultas == JogadoresConsulta \X Ligas

\* Longest match table drawn by the recent-window specification.
MaxJanela == 4

\* num_games: the manual analysis asks for 1 to 20 games; here 1 to MaxJanela.
Janelas == JogadoresConsulta \X (1..MaxJanela)

\* The rows of the recent-window tables: wins, losses and draws of Ana at home and away,
\* with and without both players scoring and more than two goals, a match Ana is not
\* in, and a row that names Ana on both sides.
PartidasRecentes ==
    {Partida(<<"GT 12 Min", "Ana", "Bia">>, p) : p \in {<<1, 0, 2, 1>>, <<0, 0, 1, 0>>, <<0, 0, 0, 0>>}}
    \cup {Partida(<<"H2H 8 Min", "Bia", "Ana">>, p) : p \in {<<0, 1, 4, 0>>, <<1, 1, 1, 1>>}}
    \cup {Partida(<<"GT 12 Min", "Bia", "Duda">>, <<1, 1, 2, 2>>),
          Partida(<<"GT 12 Min", "Ana", "Ana">>, <<1, 0, 2, 1>>)}

SemRecentes == [q \in Janelas |-> get_recent_player_stats(DataFrameVazio, q[1], q[2])]

StatsIdle ==
    /\ stats_jogador = [q \in Consultas |-> zeros]
    /\ df_stats_all_players = <<>>
    /\ recent = SemRecentes
    /\ excecao = ""

\* buscar_resultados has returned a table with every column of ordem.
StatsInit ==
    /\ pc = "resultados"
    /\ pagina_resultados = [header |-> {}, linhas |-> <<>>]
    /\ linhas_resultados = SemLinhas
    /\ \E t \in Tabelas(MaxJogos, Partidas) : df_resultados = DfDe(t)
    /\ erro_resultados = FALSE
    /\ StatsIdle

\* The render cycle is over and the user opens the manual analysis.
RecentInit ==
    /\ pc = "stats"
    /\ pagina_resultados = [header |-> {}, linhas |-> <<>>]
    /\ linhas_resultados = SemLinhas
    /\ \E t \in Tabelas(MaxJanela, PartidasRecentes) : df_resultados = DfDe(t)
    /\ erro_resultados = FALSE
    /\ StatsIdle

\* carregar_dados_ao_vivo asks calcular_estatisticas_jogador for the two players of
\* each live row in the league of the row.
CalcularEstatisticasJogador ==
    /\ pc = "resultados"
    /\ stats_jogador' = [q \in Consultas |->
                            calcular_estatisticas_jogador(df_resultados, q[1], q[2])]
    /\ pc' = "ao_vivo"
    /\ UNCHANGED <<pagina_resultados, linhas_resultados, df_resultados, erro_resultados,
                   df_stats_all_players, recent, excecao>>

\* app(): df_stats_all_players = calcular_estatisticas_todos_jogadores(df_resultados)
\* app() calls it outside any try block: an exception it raises leaves app().
CalcularEstatisticasTodosJogadores ==
    /\ pc = "ao_vivo"
    /\ IF TodosLevanta(df_resultados)
       THEN /\ excecao' = "KeyError"
            /\ pc' = "falha"
            /\ UNCHANGED df_stats_all_players
       ELSE /\ df_stats_all_players' = calcular_estatisticas_todos_jogadores(df_resultados)
            /\ pc' = "stats"
            /\ UNCHANGED excecao
    /\ UNCHANGED <<pagina_resultados, linhas_resultados, df_resultados, erro_resultados,
                   stats_jogador, recent>>

\* perform_manual_analysis: get_recent_player_stats for the chosen players and window
\* (it returns before the calls when df_resultados is empty).
GetRecentPlayerStats ==
    /\ pc = "stats"
    /\ ~DfEmpty(df_resultados)
    /\ recent' = [q \in Janelas |-> get_recent_player_stats(df_resultados, q[1], q[2])]
    /\ pc' = "analise"
    /\ UNCHANGED <<pagina_resultados, linhas_resultados, df_resultados, erro_resultados,
                   stats_jogador, df_stats_all_players, excecao>>

(***************************************************************************)
(* Market suggester: sugerir_over_ft, sugerir_over_ht                      *)
(***************************************************************************)

\* Largest and smallest average (in hundredths) fed to the suggester.
MaxMediaCenti == 720
MaxNegCenti == 20

MediasCenti == (0 - MaxNegCenti)..MaxMediaCenti

\* A suggester with the >= 3.45 rung compared with > instead.
sugerir_over_ft_estrito(n, d) ==
    IF      100 * n >= 670 * d THEN "Over 5.5 FT"
    ELSE IF 100 * n >= 570 * d THEN "Over 4.5 FT"
    ELSE IF 100 * n >= 450 * d THEN "Over 3.5 FT"
    ELSE IF 100 * n >  345 * d THEN "Over 2.5 FT"
    ELSE IF 100 * n >= 240 * d THEN "Over 1.5 FT"
    ELSE IF 100 * n >= 200 * d THEN "Over 0.5 FT"
    ELSE "Sem Entrada"

\* A suggester with the labels of the 4.50 and 5.70 rungs exchanged.
sugerir_over_ft_trocado(n, d) ==
    IF      100 * n >= 670 * d THEN "Over 5.5 FT"
    ELSE IF 100 * n >= 570 * d THEN "Over 3.5 FT"
    ELSE IF 100 * n >= 450 * d THEN "Over 4.5 FT"
    ELSE IF 100 * n >= 345 * d THEN "Over 2.5 FT"
    ELSE IF 100 * n >= 240 * d THEN "Over 1.5 FT"
    ELSE IF 100 * n >= 200 * d THEN "Over 0.5 FT"
    ELSE "Sem Entrada"

\* sugerir_over_ft(media_gols_ft) for the average n/d.
sugerir_over_ft(n, d) ==
    IF      100 * n >= 670 * d THEN "Over 5.5 FT"
    ELSE IF 100 * n >= 570 * d THEN "Over 4.5 FT"
    ELSE IF 100 * n >= 450 * d THEN "Over 3.5 FT"
    ELSE IF 100 * n >= 345 * d THEN "Over 2.5 FT"
    ELSE IF 100 * n >= 240 * d THEN "Over 1.5 FT"
    ELSE IF 100 * n >= 200 * d THEN "Over 0.5 FT"
    ELSE "Sem Entrada"

\* sugerir_over_ht(media_gols_ht) for the average n/d.
sugerir_over_ht(n, d) ==
    IF      100 * n >= 275 * d THEN "Over 2.5 HT"
    ELSE IF 100 * n >= 220 * d THEN "Over 1.5 HT"
    ELSE IF 100 * n >= 170 * d THEN "Over 0.5 HT"
    ELSE "Sem Entrada"

SugIdle ==
    /\ media = <<0, 0>>
    /\ sugestoes = SemSugestoes

SugInit ==
    /\ \E a \in MediasCenti : media = <<a, a>>
    /\ sugestoes = SemSugestoes

\* The suggester is applied to the average a and to an average b >= a.
SugerirOver ==
    /\ sugestoes = SemSugestoes
    /\ \E b \in MediasCenti :
        /\ b >= media[1]
        /\ media' = <<media[1], b>>
        /\ sugestoes' = [ft_a |-> sugerir_over_ft(media[1], 100),
                         ft_b |-> sugerir_over_ft(b, 100),
                         ht_a |-> sugerir_over_ht(media[1], 100),
                         ht_b |-> sugerir_over_ht(b, 100)]


(***************************************************************************)
(* Network boundary: requisicao_segura, extrair_dados_pagina               *)
(***************************************************************************)

URLs == {"URL_RESULTADOS", "URL_AO_VIVO"}

\* What requests.get and raise_for_status meet: a response with a good status, or one
\* of the requests.exceptions.RequestException subclasses.
ResultadosHTTP == {"ok", "Timeout", "ConnectionError", "HTTPError"}

\* A requisicao_segura that issues the GET again after a failure.
requisicao_segura_com_nova_tentativa(resultado) ==
    [resp |-> resultado = "ok", gets |-> IF resultado = "ok" THEN 1 ELSE 2]

\* requisicao_segura(url): one requests.get; the response, or None when
\* RequestException was caught (resp = FALSE).  gets is the number of GETs issued.
requisicao_segura(resultado) == [resp |-> resultado = "ok", gets |-> 1]

\* extrair_dados_pagina(url): [] when there is no response or the page has no <tr>
\* with cells (sem_tr), the rows of the page otherwise.
extrair_dados_pagina(resultado, sem_tr) ==
    LET r == requisicao_segura(resultado)
    IN  [vazio |-> ~r.resp \/ sem_tr, gets |-> r.gets]

(***************************************************************************)
(* Live normalizer: carregar_dados_ao_vivo                                 *)
(***************************************************************************)

COMPETICOES_PERMITIDAS ==
    {"E-soccer - H2H GG League - 8 minutos de jogo",
     "Esoccer Battle Volta - 6 Minutos de Jogo",
     "E-soccer - GT Leagues - 12 mins de jogo",
     "E-soccer - Battle - 8 minutos de jogo"}

\* A live map whose GT entry is spelled "GT 12 min".
mapa_ligas_ao_vivo_outra_grafia(liga) ==
    CASE liga = "E-soccer - H2H GG League - 8 minutos de jogo" -> "H2H 8 Min"
      [] liga = "Esoccer Battle Volta - 6 Minutos de Jogo" -> "Volta 6 Min"
      [] liga = "E-soccer - GT Leagues - 12 mins de jogo" -> "GT 12 min"
      [] liga = "E-soccer - Battle - 8 minutos de jogo" -> "Battle 8 Min"
      [] OTHER -> liga

\* mapa_ligas of carregar_dados_ao_vivo, as Series.replace applies it.
mapa_ligas_ao_vivo(liga) ==
    CASE liga = "E-soccer - H2H GG League - 8 minutos de jogo" -> "H2H 8 Min"
      [] liga = "Esoccer Battle Volta - 6 Minutos de Jogo" -> "Volta 6 Min"
      [] liga = "E-soccer - GT Leagues - 12 mins de jogo" -> "GT 12 Min"
      [] liga = "E-soccer - Battle - 8 minutos de jogo" -> "Battle 8 Min"
      [] OTHER -> liga

\* ligas_principais of generate_smart_tips and config["ligas"] of generate_ai_prediction.
ligas_principais == {"Battle 8 Min", "Volta 6 Min", "H2H 8 Min", "GT 12 Min"}

ligas_previsao_ia == {"Battle 8 Min", "Volta 6 Min", "H2H 8 Min", "GT 12 Min"}

\* extrair_jogadores: the Confronto cell is [formato, m, v]; with the format
\* "... (m) ... x ... (v)" the regular expression finds the two names in parentheses,
\* with any other text it finds nothing and the names are "".
extrair_jogadores(txt) ==
    IF txt.formato = "parenteses" THEN <<txt.m, txt.v>> ELSE <<"", "">>

\* x / j if j else 0, as an exact fraction.
Media(x, j) == IF j # 0 THEN [n |-> x, d |-> j] ELSE [n |-> 0, d |-> 1]

\* Mais that keeps its first term only.
Mais_primeira_parcela(a, b) == a

Mais(a, b) == [n |-> a.n * b.d + b.n * a.d, d |-> a.d * b.d]

\* The sum left undivided.
Metade_sem_dividir(a) == [n |-> a.n, d |-> a.d]

Metade(a) == [n |-> a.n, d |-> 2 * a.d]

\* get_over_text(player_name, avg_goals), avg_goals = n / d: the two bands are closed
\* intervals of the literals of the source.
get_over_text(player_name, n, d) ==
    IF 230 * d <= 100 * n /\ 100 * n <= 339 * d THEN player_name \o "  1.5 Gols"
    ELSE IF 340 * d <= 100 * n /\ 100 * n <= 450 * d THEN player_name \o "  2.5 Gols"
    ELSE "Instável"

\* One iteration of "for _, r in df.iterrows()": the live row with its statistics.
LinhaAoVivo(df_res, r) ==
    LET sm == calcular_estatisticas_jogador(df_res, r.Mandante, r.Liga)
        sv == calcular_estatisticas_jogador(df_res, r.Visitante, r.Liga)
        jm == sm.jogos_total
        jv == sv.jogos_total
        avg_m_gf_ht == Media(sm.gols_marcados_ht, jm)
        avg_m_ga_ht == Media(sm.gols_sofridos_ht, jm)
        avg_v_gf_ht == Media(sv.gols_marcados_ht, jv)
        avg_v_ga_ht == Media(sv.gols_sofridos_ht, jv)
        avg_m_gf_ft == Media(sm.gols_marcados, jm)
        avg_m_ga_ft == Media(sm.gols_sofridos, jm)
        avg_v_gf_ft == Media(sv.gols_marcados, jv)
        avg_v_ga_ft == Media(sv.gols_sofridos, jv)
        soma_ht_mandante == Mais(avg_m_gf_ht, avg_m_ga_ht)
        soma_ht_visitante == Mais(avg_v_gf_ht, avg_v_ga_ht)
        soma_ft_mandante == Mais(avg_m_gf_ft, avg_v_ga_ft)
        soma_ft_visitante == Mais(avg_v_gf_ft, avg_m_ga_ft)
        gols_ht_media_confronto == Metade(Mais(soma_ht_mandante, soma_ht_visitante))
        gols_ft_media_confronto == Metade(Mais(soma_ft_mandante, soma_ft_visitante))
        ambos == jm # 0 /\ jv # 0
        gp_calc == IF ambos THEN Metade(Mais(avg_m_gf_ft, avg_v_ga_ft)) ELSE [n |-> 0, d |-> 1]
        gc_calc == IF ambos THEN Metade(Mais(avg_v_gf_ft, avg_m_ga_ft)) ELSE [n |-> 0, d |-> 1]
    IN  [Hora |-> r.Hora, Liga |-> r.Liga, Mandante |-> r.Mandante, Visitante |-> r.Visitante,
         J1 |-> jm, J2 |-> jv, GP |-> gp_calc, GC |-> gc_calc,
         Over_Mandante |-> get_over_text(r.Mandante, gp_calc.n, gp_calc.d),
         Over_Visitante |-> get_over_text(r.Visitante, gc_calc.n, gc_calc.d),
         Gols_HT |-> gols_ht_media_confronto, Gols_FT |-> gols_ft_media_confronto,
         Sugestao_HT |-> sugerir_over_ht(gols_ht_media_confronto.n, gols_ht_media_confronto.d),
         Sugestao_FT |-> sugerir_over_ft(gols_ft_media_confronto.n, gols_ft_media_confronto.d)]

\* The rows of the live page without the competition filter.
LinhasFiltradas_sem_filtro(lin) ==
    [i \in 1..Len(lin.linhas) |->
        [Hora |-> lin.linhas[i].Hora,
         Liga |-> mapa_ligas_ao_vivo(lin.linhas[i].Competicao),
         Mandante |-> extrair_jogadores(lin.linhas[i].Confronto)[1],
         Visitante |-> extrair_jogadores(lin.linhas[i].Confronto)[2]]]

\* The rows of the live page after the competition filter, with the players extracted
\* and the league canonicalized.
LinhasFiltradas(lin) ==
    LET permitidas == SelectSeq(lin.linhas, LAMBDA l : l.Competicao \in COMPETICOES_PERMITIDAS)
    IN  [i \in 1..Len(permitidas) |->
            [Hora |-> permitidas[i].Hora,
             Liga |-> mapa_ligas_ao_vivo(permitidas[i].Competicao),
             Mandante |-> extrair_jogadores(permitidas[i].Confronto)[1],
             Visitante |-> extrair_jogadores(permitidas[i].Confronto)[2]]]

\* The body of the try block of carregar_dados_ao_vivo raises: a call of
\* calcular_estatisticas_jogador does.
AoVivoLevanta(lin, df_res) ==
    /\ lin.largura >= 4
    /\ \E i \in 1..Len(LinhasFiltradas(lin)) :
          LET r == LinhasFiltradas(lin)[i]
          IN  \/ JogadorLevanta(df_res, r.Mandante, r.Liga)
              \/ JogadorLevanta(df_res, r.Visitante, r.Liga)

\* carregar_dados_ao_vivo(df_resultados) on the rows extrair_dados_pagina returned: the
\* rows of df_clean (no row: pd.DataFrame()).
carregar_dados_ao_vivo(lin, df_res) ==
    IF lin.vazio \/ lin.largura < 4 \/ AoVivoLevanta(lin, df_res) THEN <<>>
    ELSE LET filtradas == LinhasFiltradas(lin)
         IN  [i \in 1..Len(filtradas) |-> LinhaAoVivo(df_res, filtradas[i])]

\* f"{x:.2f}" of x = n / d >= 0, as the number of hundredths the text shows: the
\* nearest hundredth, and the even one when x is exactly halfway.
Formata2(x) ==
    LET q == (100 * x.n) \div x.d
        r2 == 2 * ((100 * x.n) % x.d)
    IN  IF r2 > x.d \/ (r2 = x.d /\ q % 2 = 1) THEN q + 1 ELSE q

\* df_display[colunas_ao_vivo_solicitadas] of the rows of df_clean.
df_display(df_clean) ==
    [i \in 1..Len(df_clean) |->
        [Hora |-> df_clean[i].Hora, Liga |-> df_clean[i].Liga,
         Mandante |-> df_clean[i].Mandante, Visitante |-> df_clean[i].Visitante,
         GP |-> Formata2(df_clean[i].GP), GC |-> Formata2(df_clean[i].GC),
         Over_Mandante |-> df_clean[i].Over_Mandante,
         Over_Visitante |-> df_clean[i].Over_Visitante,
         Sugestao_HT |-> df_clean[i].Sugestao_HT,
         Sugestao_FT |-> df_clean[i].Sugestao_FT]]

SemLinhasAoVivo == [vazio |-> TRUE, largura |-> 0, linhas |-> <<>>]

LiveIdle ==
    /\ http = [u \in URLs |-> "ok"]
    /\ gets = [u \in URLs |-> 0]
    /\ pagina_ao_vivo = [largura |-> 0, linhas |-> <<>>]
    /\ linhas_ao_vivo = SemLinhasAoVivo
    /\ df_live_clean = <<>>
    /\ df_live_display = <<>>
    /\ erro_ao_vivo = FALSE

(***************************************************************************)
(* Render cycle: app() loads the two pages and computes the tables.  pc is *)
(* "inicio", "extraido", "resultados", "extraido_ao_vivo", "ao_vivo", then *)
(* "stats" (and "analise" after the manual analysis) or "falha" when an    *)
(* exception left app().                                                   *)
(***************************************************************************)

\* Longest results page (data rows) drawn by the render specification.
MaxLinhasPagina == 2

\* Score cells: "1x0", "2 x 1", "0x1", "1x1", "x".
Celula_1x0 == <<"1", "x", "0">>
Celula_2x1 == <<"2", " ", "x", " ", "1">>
Celula_0x1 == <<"0", "x", "1">>
Celula_1x1 == <<"1", "x", "1">>
Celula_x == <<"x">>

LinhaPagina(campeonato, j1, j2, ht, ft) ==
    [Data |-> "01/01", Campeonato |-> campeonato,
     Jogador1 |-> <<j1, "Real">>, Jogador2 |-> <<j2, "Barca">>,
     PlacarHT |-> ht, Placar |-> ft]

\* The data rows of the results pages: one for each league of the map and one of a
\* league outside it.
LinhasPaginaResultados ==
    {LinhaPagina("GT League", "Ana", "Bia", Celula_1x0, Celula_2x1),
     LinhaPagina("H2H 8m", "Bia", "Ana", Celula_0x1, Celula_1x1),
     LinhaPagina("Battle 8m", "Ana", "Bia", Celula_x, Celula_1x0),
     LinhaPagina("Battle 6m", "Ana", "Bia", Celula_1x1, Celula_2x1),
     LinhaPagina("Liga Pro", "Ana", "Bia", Celula_1x0, Celula_1x1)}

\* The header rows: every column, or every column but one.
HeadersPagina == {ColunasPagina} \cup {ColunasPagina \ {c} : c \in ColunasPagina}

\* The results pages: no <tr> at all, or a header row and up to MaxLinhasPagina rows.
PaginasResultados ==
    {[header |-> {}, linhas |-> <<>>]}
    \cup {[header |-> h, linhas |-> t] :
             h \in HeadersPagina, t \in Tabelas(MaxLinhasPagina, LinhasPaginaResultados)}

LinhaPaginaAoVivo(competicao, formato, m, v) ==
    [Hora |-> "10:00", Competicao |-> competicao,
     Confronto |-> [formato |-> formato, m |-> m, v |-> v]]

\* The first row of the live table: the titles of its columns.
CabecalhoAoVivo == LinhaPaginaAoVivo("Competicao", "titulo", "", "")

\* The rows of the live pages: Ana against Bia in each permitted competition, in a
\* competition that is not permitted, with a Confronto cell without parentheses, and
\* a player without history.
LinhasPaginaAoVivo ==
    {LinhaPaginaAoVivo(c, "parenteses", "Ana", "Bia") : c \in COMPETICOES_PERMITIDAS}
    \cup {LinhaPaginaAoVivo("E-soccer - Liga Pro - 10 minutos de jogo", "parenteses", "Ana", "Bia"),
          LinhaPaginaAoVivo("E-soccer - GT Leagues - 12 mins de jogo", "sem parenteses", "Ana", "Bia"),
          LinhaPaginaAoVivo("E-soccer - GT Leagues - 12 mins de jogo", "parenteses", "Caio", "Ana")}

\* Live pages of two rows: a permitted competition before and after one that is not,
\* and two permitted competitions.
ParesAoVivo ==
    {<<LinhaPaginaAoVivo("E-soccer - H2H GG League - 8 minutos de jogo", "parenteses", "Ana", "Bia"),
       LinhaPaginaAoVivo("E-soccer - Liga Pro - 10 minutos de jogo", "parenteses", "Bia", "Ana")>>,
     <<LinhaPaginaAoVivo("E-soccer - Liga Pro - 10 minutos de jogo", "parenteses", "Ana", "Bia"),
       LinhaPaginaAoVivo("E-soccer - Battle - 8 minutos de jogo", "parenteses", "Bia", "Ana")>>,
     <<LinhaPaginaAoVivo("E-soccer - GT Leagues - 12 mins de jogo", "parenteses", "Caio", "Ana"),
       LinhaPaginaAoVivo("Esoccer Battle Volta - 6 Minutos de Jogo", "parenteses", "Ana", "Bia")>>}

\* The live pages: no <tr> at all, or the title row alone or followed by one row or by
\* two, in a table of three or of four columns.
PaginasAoVivo ==
    {[largura |-> 0, linhas |-> <<>>]}
    \cup {[largura |-> w, linhas |-> t] :
             w \in {3, 4},
             t \in {<<CabecalhoAoVivo>>} \cup {<<CabecalhoAoVivo, r>> : r \in LinhasPaginaAoVivo}
                   \cup {<<CabecalhoAoVivo>> \o par : par \in ParesAoVivo}}

\* app() starts a render cycle: each URL answers or fails, and serves a page when it
\* answers.
RenderInit ==
    /\ pc = "inicio"
    /\ http \in [URLs -> ResultadosHTTP]
    /\ gets = [u \in URLs |-> 0]
    /\ pagina_resultados \in
           (IF http["URL_RESULTADOS"] = "ok" THEN PaginasResultados
            ELSE {[header |-> {}, linhas |-> <<>>]})
    /\ pagina_ao_vivo \in
           (IF http["URL_AO_VIVO"] = "ok" THEN PaginasAoVivo
            ELSE {[largura |-> 0, linhas |-> <<>>]})
    /\ linhas_resultados = SemLinhas
    /\ df_resultados = DataFrameVazio
    /\ erro_resultados = FALSE
    /\ linhas_ao_vivo = SemLinhasAoVivo
    /\ df_live_clean = <<>>
    /\ df_live_display = <<>>
    /\ erro_ao_vivo = FALSE

\* buscar_resultados: linhas = extrair_dados_pagina(URL_RESULTADOS)
ExtrairResultados ==
    /\ pc = "inicio"
    /\ LET e == extrair_dados_pagina(http["URL_RESULTADOS"], pagina_resultados.header = {})
       IN  /\ gets' = [gets EXCEPT !["URL_RESULTADOS"] = @ + e.gets]
           /\ linhas_resultados' =
                  IF e.vazio THEN SemLinhas
                  ELSE [vazio |-> FALSE, header |-> pagina_resultados.header,
                        linhas |-> pagina_resultados.linhas]
    /\ pc' = "extraido"
    /\ UNCHANGED <<pagina_resultados, df_resultados, erro_resultados, excecao, http,
                   pagina_ao_vivo, linhas_ao_vivo, df_live_clean, df_live_display,
                   erro_ao_vivo>>

\* carregar_dados_ao_vivo: linhas = extrair_dados_pagina(URL_AO_VIVO)
ExtrairAoVivo ==
    /\ pc = "resultados"
    /\ LET e == extrair_dados_pagina(http["URL_AO_VIVO"], Len(pagina_ao_vivo.linhas) = 0)
       IN  /\ gets' = [gets EXCEPT !["URL_AO_VIVO"] = @ + e.gets]
           /\ linhas_ao_vivo' =
                  IF e.vazio THEN SemLinhasAoVivo
                  ELSE [vazio |-> FALSE, largura |-> pagina_ao_vivo.largura,
                        linhas |-> pagina_ao_vivo.linhas]
    /\ pc' = "extraido_ao_vivo"
    /\ UNCHANGED <<pagina_resultados, linhas_resultados, df_resultados, erro_resultados,
                   excecao, http, pagina_ao_vivo, df_live_clean, df_live_display,
                   erro_ao_vivo>>

\* carregar_dados_ao_vivo: the rest of the function.
CarregarDadosAoVivo ==
    /\ pc = "extraido_ao_vivo"
    /\ df_live_clean' = carregar_dados_ao_vivo(linhas_ao_vivo, df_resultados)
    /\ df_live_display' = df_display(carregar_dados_ao_vivo(linhas_ao_vivo, df_resultados))
    /\ erro_ao_vivo' = (~linhas_ao_vivo.vazio /\ AoVivoLevanta(linhas_ao_vivo, df_resultados))
    /\ pc' = "ao_vivo"
    /\ UNCHANGED <<pagina_resultados, linhas_resultados, df_resultados, erro_resultados,
                   excecao, http, gets, pagina_ao_vivo, linhas_ao_vivo>>

(***************************************************************************)
(* Cache: the st.cache_data(ttl=300) functions across render cycles        *)
(***************************************************************************)

\* ttl of every st.cache_data decorator, in seconds.
TTL == 300

\* interval of st_autorefresh, in seconds.
INTERVALO_AUTOREFRESH == 60

\* The clock stops here.
MaxTempo == 600

\* A GET answers at once or runs up to its timeout of 15 seconds; between renders
\* the clock advances by a minute.
Duracoes == {0, 15}

Avancos == {60}

\* What a page holds when the GET succeeds, or "vazio" when it fails: the value
\* extrair_dados_pagina returns and caches.
Conteudos == {"A"}

Valores == Conteudos \cup {"vazio"}

\* An entry that was never stored.
SemEntrada == [expira |-> 0, valor |-> "vazio"]

SemEntradaTodos == [expira |-> 0, valor |-> [resultados |-> "vazio", ao_vivo |-> "vazio", gets |-> 0]]

\* The keys of the cached functions, <<function, argument>>: extrair_dados_pagina is
\* keyed by the URL, carregar_dados_ao_vivo by df_resultados, buscar_resultados has no
\* argument and carregar_todos_os_dados_essenciais is always called with reload_flag 0.
FuncoesCache ==
    {<<"extrair_dados_pagina", u>> : u \in URLs}
    \cup {<<"buscar_resultados", "">>, <<"carregar_todos_os_dados_essenciais", "0">>}
    \cup {<<"carregar_dados_ao_vivo", k>> : k \in Valores}

ChaveTodos == <<"carregar_todos_os_dados_essenciais", "0">>

ChaveBuscar == <<"buscar_resultados", "">>

\* What a render shows: the two tables and the number of GETs it issued.
NadaExibido == [resultados |-> "vazio", ao_vivo |-> "vazio", gets |-> 0]

\* An entry is served while its time to live has not run out.
Hit(c, f, t) == t < c[f].expira

\* A cache whose entries are served however old they are not: every call is a miss.
Guarda_sem_cache(c, f, v, t) == [c EXCEPT ![f] = [expira |-> 0, valor |-> v]]

\* The entry stored at time t.
Guarda(c, f, v, t) == [c EXCEPT ![f] = [expira |-> t + TTL, valor |-> v]]

CacheIdle ==
    /\ agora = 0
    /\ cache = [f \in FuncoesCache |-> IF f = ChaveTodos THEN SemEntradaTodos ELSE SemEntrada]
    /\ gets_em = [u \in URLs |-> <<>>]
    /\ exibido = NadaExibido

\* extrair_dados_pagina(url) at time t with the cache c: a hit returns the stored value
\* and issues nothing; a miss issues one GET at t that takes d seconds and answers v.
Extrai(c, f, t, d, v) ==
    IF Hit(c, f, t) THEN [cache |-> c, valor |-> c[f].valor, fim |-> t, get |-> FALSE]
    ELSE [cache |-> Guarda(c, f, v, t + d), valor |-> v, fim |-> t + d, get |-> TRUE]

\* One run of app(): carregar_todos_os_dados_essenciais(reload_flag) and below it
\* buscar_resultados, carregar_dados_ao_vivo and extrair_dados_pagina, each behind
\* its own cache.  d1, v1 and d2, v2 are the duration and answer of the GET of each
\* URL, if it is issued.
Render(d1, v1, d2, v2) ==
    IF Hit(cache, ChaveTodos, agora)
    THEN /\ exibido' = [cache[ChaveTodos].valor EXCEPT !.gets = 0]
         /\ UNCHANGED <<agora, cache, gets_em>>
    ELSE LET er == IF Hit(cache, ChaveBuscar, agora)
                   THEN [cache |-> cache, valor |-> cache[ChaveBuscar].valor,
                         fim |-> agora, get |-> FALSE]
                   ELSE Extrai(cache, <<"extrair_dados_pagina", "URL_RESULTADOS">>, agora, d1, v1)
             c1 == IF Hit(cache, ChaveBuscar, agora) THEN er.cache
                   ELSE Guarda(er.cache, ChaveBuscar, er.valor, er.fim)
             fav == <<"carregar_dados_ao_vivo", er.valor>>
             ea == IF Hit(c1, fav, er.fim)
                   THEN [cache |-> c1, valor |-> c1[fav].valor, fim |-> er.fim, get |-> FALSE]
                   ELSE Extrai(c1, <<"extrair_dados_pagina", "URL_AO_VIVO">>, er.fim, d2, v2)
             c2 == IF Hit(c1, fav, er.fim) THEN ea.cache
                   ELSE Guarda(ea.cache, fav, ea.valor, ea.fim)
             visto == [resultados |-> er.valor, ao_vivo |-> ea.valor,
                       gets |-> (IF er.get THEN 1 ELSE 0) + (IF ea.get THEN 1 ELSE 0)]
         IN  /\ cache' = Guarda(c2, ChaveTodos, visto, ea.fim)
             /\ agora' = ea.fim
             /\ gets_em' = [gets_em EXCEPT
                    !["URL_RESULTADOS"] = IF er.get THEN Append(@, agora) ELSE @,
                    !["URL_AO_VIVO"] = IF ea.get THEN Append(@, er.fim) ELSE @]
             /\ exibido' = visto

\* The script reruns because the auto-refresh timer fired.
AutoRefresh ==
    /\ agora <= MaxTempo
    /\ agora >= INTERVALO_AUTOREFRESH
    /\ \E d1 \in Duracoes, d2 \in Duracoes, v1 \in Valores, v2 \in Valores :
          Render(d1, v1, d2, v2)

\* The script reruns because the user touched a widget.
AcaoDoUsuario ==
    /\ agora <= MaxTempo
    /\ \E d1 \in Duracoes, d2 \in Duracoes, v1 \in Valores, v2 \in Valores :
          Render(d1, v1, d2, v2)

\* Time passes between two runs of the script.
PassaTempo ==
    /\ agora < MaxTempo
    /\ \E a \in Avancos : agora' = agora + a
    /\ UNCHANGED <<cache, gets_em, exibido>>

(***************************************************************************)
(* Saved games: st.session_state.saved_games across the actions of the     *)
(* "Ao Vivo" and "Salvar Jogos" tabs                                       *)
(***************************************************************************)

\* The columns of the empty table setup_saved_games_tab creates.
ColunasJogosSalvos ==
    <<"Hora", "Liga", "Mandante", "Visitante", "Sugestão HT", "Sugestão FT", "Data Salvamento">>

\* The columns the save button slices out of the selected rows.
ColunasSelecionadas ==
    <<"Hora", "Liga", "Mandante", "Visitante", "Sugestão HT", "Sugestão FT">>

\* pd.DataFrame(columns=[...]) of setup_saved_games_tab.
JogosSalvosVazio == [colunas |-> ColunasJogosSalvos, linhas |-> <<>>]

\* Selecionadas without the filter on "Selecionar": every row of the grid.
Selecionadas_todas(data, sel) ==
    [colunas |-> ColunasSelecionadas,
     linhas |-> [k \in 1..Len(data) |->
                   [Hora |-> data[k].Hora, Liga |-> data[k].Liga,
                    Mandante |-> data[k].Mandante, Visitante |-> data[k].Visitante,
                    Sugestao_HT |-> data[k].Sugestao_HT,
                    Sugestao_FT |-> data[k].Sugestao_FT]]]

\* selected_rows[[...]].copy(): the selected rows of the grid, in the order of the grid.
Selecionadas(data, sel) ==
    LET idx == SelectSeq([i \in 1..Len(data) |-> i], LAMBDA i : i \in sel)
    IN  [colunas |-> ColunasSelecionadas,
         linhas |-> [k \in 1..Len(idx) |->
                       [Hora |-> data[idx[k]].Hora, Liga |-> data[idx[k]].Liga,
                        Mandante |-> data[idx[k]].Mandante,
                        Visitante |-> data[idx[k]].Visitante,
                        Sugestao_HT |-> data[idx[k]].Sugestao_HT,
                        Sugestao_FT |-> data[idx[k]].Sugestao_FT]]]

\* Most rows of the live page behind the grid of the saved-games session.
MaxLinhasGrade == 2

\* The rows of that page: Ana against Bia in two permitted competitions and Caio, who
\* has no history, against Ana.
LinhasDaGrade ==
    {LinhaPaginaAoVivo("E-soccer - H2H GG League - 8 minutos de jogo", "parenteses", "Ana", "Bia"),
     LinhaPaginaAoVivo("E-soccer - Battle - 8 minutos de jogo", "parenteses", "Ana", "Bia"),
     LinhaPaginaAoVivo("E-soccer - GT Leagues - 12 mins de jogo", "parenteses", "Caio", "Ana")}

\* The live tables of the saved-games session: carregar_dados_ao_vivo of pages of up
\* to MaxLinhasGrade rows, when no match table was loaded.
TabelasAoVivo ==
    {carregar_dados_ao_vivo([vazio |-> FALSE, largura |-> 4, linhas |-> <<CabecalhoAoVivo>> \o t],
                            DataFrameVazio) :
        t \in Tabelas(MaxLinhasGrade, LinhasDaGrade)}

(***************************************************************************)
(* Results analysis of the saved-games tab: calculate_profit,              *)
(* check_game_status and the button "Atualizar Análise de Resultados".     *)
(* Odds and profits are in hundredths of a unit, thresholds in tenths of a *)
(* goal, the clock is <<hour, minute>>.                                    *)
(***************************************************************************)
\* The suggestions with "Over" in them that the suggester writes.
SugestoesOver == {"Over 0.5 HT", "Over 1.5 HT", "Over 2.5 HT",
                  "Over 0.5 FT", "Over 1.5 FT", "Over 2.5 FT",
                  "Over 3.5 FT", "Over 4.5 FT", "Over 5.5 FT"}

\* float(suggestion.split()[1]), in tenths of a goal.
required(suggestion) ==
    CASE suggestion \in {"Over 0.5 HT", "Over 0.5 FT"} -> 5
      [] suggestion \in {"Over 1.5 HT", "Over 1.5 FT"} -> 15
      [] suggestion \in {"Over 2.5 HT", "Over 2.5 FT"} -> 25
      [] suggestion = "Over 3.5 FT" -> 35
      [] suggestion = "Over 4.5 FT" -> 45
      [] suggestion = "Over 5.5 FT" -> 55

\* calculate_profit with the threshold itself counted as a win.
calculate_profit_limiar_inteiro(suggestion, actual_score, odd) ==
    IF suggestion = "" \/ suggestion = "Sem Entrada" THEN 0
    ELSE IF suggestion \in SugestoesOver
         THEN IF 10 * actual_score >= required(suggestion) - 5 THEN odd - 100 ELSE -100
         ELSE 0

\* calculate_profit(suggestion, actual_score, odd)
calculate_profit(suggestion, actual_score, odd) ==
    IF suggestion = "" \/ suggestion = "Sem Entrada" THEN 0
    ELSE IF suggestion \in SugestoesOver
         THEN IF 10 * actual_score > required(suggestion) THEN odd - 100 ELSE -100
         ELSE 0

\* int(game_time.split(':')[0]) and int(game_time.split(':')[1]) for the texts of the
\* Hora column; <<>> when int() raises.
HoraMinuto(game_time) ==
    CASE game_time = "10:00" -> <<10, 0>>
      [] game_time = "22:00" -> <<22, 0>>
      [] OTHER -> <<>>

\* check_game_status(game_time, None) when datetime.now() is now.
check_game_status(game_time, now) ==
    LET hm == HoraMinuto(game_time)
        dif == IF hm = <<>> THEN 0 ELSE hm[2] - now[2]
    IN  IF hm = <<>> THEN "Finalizado"
        ELSE IF hm[1] > now[1] \/ (hm[1] = now[1] /\ hm[2] > now[2]) THEN "A iniciar"
        ELSE IF hm[1] = now[1] /\ (IF dif < 0 THEN -dif ELSE dif) < 30 THEN "Em andamento"
        ELSE "Finalizado"

\* The text "Aguardando".
Aguardando == <<"A", "g", "u", "a", "r", "d", "a", "n", "d", "o">>

\* df_resultados[(Mandante == game.Mandante) & (Visitante == game.Visitante)]
result_data(df, game) ==
    SelectSeq(df.linhas, LAMBDA r : r.Mandante = game.Mandante /\ r.Visitante = game.Visitante)

\* The cell "Resultado HT" or "Resultado FT": "N/A", "N/D" or the two goal counts.
SemResultado(texto) == [texto |-> texto, m |-> 0, v |-> 0]

\* The row one saved game adds to results.
LinhaResultado(df, game, now) ==
    LET status == check_game_status(game.Hora, now)
        rd == result_data(df, game)
        game_date == IF Len(rd) > 0 THEN rd[1].Data ELSE Aguardando
        base == [Hora |-> game.Hora, Data_do_Jogo |-> game_date,
                 Jogo |-> <<game.Mandante, game.Visitante>>, Status |-> status,
                 Sugestao_HT |-> game.Sugestao_HT, Resultado_HT |-> SemResultado("N/A"),
                 Lucro_HT |-> 0,
                 Sugestao_FT |-> game.Sugestao_FT, Resultado_FT |-> SemResultado("N/A"),
                 Lucro_FT |-> 0]
    IN  IF status # "Finalizado" THEN base
        ELSE IF Len(rd) > 0
        THEN LET latest_result == rd[1]
                 total_ht == latest_result.Mandante_HT + latest_result.Visitante_HT
                 total_ft == latest_result.Mandante_FT + latest_result.Visitante_FT
             IN  [base EXCEPT
                    !.Data_do_Jogo = latest_result.Data,
                    !.Resultado_HT = [texto |-> "placar", m |-> latest_result.Mandante_HT,
                                      v |-> latest_result.Visitante_HT],
                    !.Lucro_HT = calculate_profit(game.Sugestao_HT, total_ht, 160),
                    !.Resultado_FT = [texto |-> "placar", m |-> latest_result.Mandante_FT,
                                      v |-> latest_result.Visitante_FT],
                    !.Lucro_FT = calculate_profit(game.Sugestao_FT, total_ft, 160)]
        ELSE [base EXCEPT !.Resultado_HT = SemResultado("N/D"),
                          !.Resultado_FT = SemResultado("N/D")]

\* The first loop of the analysis over the saved games: the rows and the counters.
RECURSIVE LacoAnalise(_, _, _)
LacoAnalise(df, games, now) ==
    IF Len(games) = 0
    THEN [results |-> <<>>, total_games |-> 0, ht_greens |-> 0, ht_reds |-> 0,
          ft_greens |-> 0, ft_reds |-> 0, total_ht_profit |-> 0, total_ft_profit |-> 0]
    ELSE LET a == LacoAnalise(df, SubSeq(games, 1, Len(games) - 1), now)
             linha == LinhaResultado(df, games[Len(games)], now)
         IN  IF linha.Resultado_HT.texto # "placar"
             THEN [a EXCEPT !.results = Append(@, linha)]
             ELSE [results |-> Append(a.results, linha),
                   total_games |-> a.total_games + 1,
                   ht_greens |-> a.ht_greens + (IF linha.Lucro_HT > 0 THEN 1 ELSE 0),
                   ht_reds |-> a.ht_reds + (IF linha.Lucro_HT < 0 THEN 1 ELSE 0),
                   ft_greens |-> a.ft_greens + (IF linha.Lucro_FT > 0 THEN 1 ELSE 0),
                   ft_reds |-> a.ft_reds + (IF linha.Lucro_FT < 0 THEN 1 ELSE 0),
                   total_ht_profit |-> a.total_ht_profit + linha.Lucro_HT,
                   total_ft_profit |-> a.total_ft_profit + linha.Lucro_FT]

odds_range == <<150, 175, 200, 225, 250, 275, 300>>

\* The inner loop of the projection for one odd: every saved game with a record.
RECURSIVE LacoProjecao(_, _, _)
LacoProjecao(df, games, odd) ==
    IF Len(games) = 0
    THEN [ht_profit |-> 0, ft_profit |-> 0, ht_greens |-> 0, ht_reds |-> 0,
          ft_greens |-> 0, ft_reds |-> 0]
    ELSE LET a == LacoProjecao(df, SubSeq(games, 1, Len(games) - 1), odd)
             game == games[Len(games)]
             rd == result_data(df, game)
         IN  IF Len(rd) = 0 THEN a
             ELSE LET latest_result == rd[1]
                      ht_p == calculate_profit(game.Sugestao_HT,
                                 latest_result.Mandante_HT + latest_result.Visitante_HT, odd)
                      ft_p == calculate_profit(game.Sugestao_FT,
                                 latest_result.Mandante_FT + latest_result.Visitante_FT, odd)
                  IN  [ht_profit |-> a.ht_profit + ht_p,
                       ft_profit |-> a.ft_profit + ft_p,
                       ht_greens |-> a.ht_greens + (IF ht_p > 0 THEN 1 ELSE 0),
                       ht_reds |-> a.ht_reds + (IF ht_p < 0 THEN 1 ELSE 0),
                       ft_greens |-> a.ft_greens + (IF ft_p > 0 THEN 1 ELSE 0),
                       ft_reds |-> a.ft_reds + (IF ft_p < 0 THEN 1 ELSE 0)]

\* The code point of a character of a Data cell.
CodigoChar(c) == IF c = "/" THEN 47 ELSE 48 + ValorDigito(c)

\* a < b for two texts as Python compares str: by the first character that differs,
\* a proper prefix first.
RECURSIVE TextoMenor(_, _)
TextoMenor(a, b) ==
    IF Len(b) = 0 THEN FALSE
    ELSE IF Len(a) = 0 THEN TRUE
    ELSE IF a[1] # b[1] THEN CodigoChar(a[1]) < CodigoChar(b[1])
    ELSE TextoMenor(Tail(a), Tail(b))

\* a < b for two cells of "Data do Jogo": the letter of "Aguardando" comes after digits.
DataDoJogoMenor(a, b) ==
    IF a = Aguardando THEN FALSE
    ELSE IF b = Aguardando THEN TRUE
    ELSE TextoMenor(a, b)

RECURSIVE InserirPorDataDoJogo(_, _)
InserirPorDataDoJogo(rows, r) ==
    IF Len(rows) = 0 THEN <<r>>
    ELSE IF DataDoJogoMenor(Head(rows).Data_do_Jogo, r.Data_do_Jogo) THEN <<r>> \o rows
    ELSE <<Head(rows)>> \o InserirPorDataDoJogo(Tail(rows), r)

\* df_results.sort_values('Data do Jogo', ascending=False)
RECURSIVE OrdenarPorDataDoJogo(_)
OrdenarPorDataDoJogo(rows) ==
    IF Len(rows) = 0 THEN <<>>
    ELSE InserirPorDataDoJogo(OrdenarPorDataDoJogo(SubSeq(rows, 1, Len(rows) - 1)),
                              rows[Len(rows)])

\* The "Resumo Geral" when no game was analysed: it is not drawn.
SemResumo == [Total |-> 0, Greens_HT |-> 0, Reds_HT |-> 0, Lucro_HT |-> 0,
              Greens_FT |-> 0, Reds_FT |-> 0, Lucro_FT |-> 0]

\* Nothing is drawn under "Análise de Resultados".
SemAnalise == [feita |-> FALSE, erro |-> "", df_results |-> <<>>, projection_data |-> <<>>,
               resumo |-> SemResumo]

\* What the button draws for the saved games and the match table when the clock reads
\* now: the table of the games, the projection and the summary.  The projection loop
\* assigns ht_greens, ht_reds, ft_greens and ft_reds again, and the summary is drawn
\* after it.
analise_de_resultados(df, games, now) ==
    IF Len(games) > 0 /\ ~({"Mandante", "Visitante"} \subseteq df.colunas)
    THEN [SemAnalise EXCEPT !.feita = TRUE, !.erro = "KeyError"]
    ELSE LET a == LacoAnalise(df, games, now)
             projection_data ==
                 [k \in 1..Len(odds_range) |->
                     LET p == LacoProjecao(df, games, odds_range[k])
                     IN  [Odd |-> odds_range[k], Total_Jogos |-> a.total_games,
                          Greens_HT |-> p.ht_greens, Reds_HT |-> p.ht_reds,
                          Greens_FT |-> p.ft_greens, Reds_FT |-> p.ft_reds,
                          Lucro_HT |-> p.ht_profit, Lucro_FT |-> p.ft_profit,
                          Lucro_Total |-> p.ht_profit + p.ft_profit]]
             ultimo == projection_data[Len(odds_range)]
         IN  [feita |-> TRUE, erro |-> "",
              df_results |-> OrdenarPorDataDoJogo(a.results),
              projection_data |-> IF a.total_games > 0 THEN projection_data ELSE <<>>,
              resumo |-> IF a.total_games > 0
                         THEN [Total |-> a.total_games,
                               Greens_HT |-> ultimo.Greens_HT, Reds_HT |-> ultimo.Reds_HT,
                               Lucro_HT |-> a.total_ht_profit,
                               Greens_FT |-> ultimo.Greens_FT, Reds_FT |-> ultimo.Reds_FT,
                               Lucro_FT |-> a.total_ft_profit]
                         ELSE SemResumo]

\* The clocks of the analysis: 10:15, 12:00 and 23:00.
Relogios == {<<10, 15>>, <<12, 0>>, <<23, 0>>}

\* The message of a saved-games tab: its text and the number it names.
Aviso(texto, n) == [texto |-> texto, n |-> n]

SavedIdle ==
    /\ saved_games = JogosSalvosVazio
    /\ aviso = Aviso("", 0)
    /\ analise = SemAnalise

\* The first script run of a session: setup_saved_games_tab creates the table.
SavedInit ==
    /\ saved_games = JogosSalvosVazio
    /\ aviso = Aviso("", 0)
    /\ analise = SemAnalise
    /\ http = [u \in URLs |-> "ok"]
    /\ gets = [u \in URLs |-> 0]
    /\ pagina_ao_vivo = [largura |-> 0, linhas |-> <<>>]
    /\ linhas_ao_vivo = SemLinhasAoVivo
    /\ erro_ao_vivo = FALSE
    /\ df_live_clean \in TabelasAoVivo
    /\ df_live_display = df_display(df_live_clean)

\* The button "Salvar Jogos Selecionados" with the rows sel ticked.  With no row ticked
\* the grid data either has a "Selecionar" column of False (warning) or has none
\* (KeyError, caught by the handler): the table is left alone in both cases.
SalvarJogosSelecionados ==
    /\ Len(df_live_display) > 0
    /\ \E sel \in SUBSET (1..Len(df_live_display)) :
          IF sel # {}
          THEN /\ saved_games' = Selecionadas(df_live_display, sel)
               /\ aviso' = Aviso("jogos salvos", Cardinality(sel))
          ELSE /\ aviso' \in {Aviso("Nenhum jogo selecionado", 0), Aviso("Erro", 0)}
               /\ UNCHANGED saved_games
    /\ analise' = SemAnalise
    /\ UNCHANGED <<df_live_clean, df_live_display>>

\* The button "Limpar Todos os Jogos Salvos", drawn when the table is not empty.
LimparTodos ==
    /\ Len(saved_games.linhas) > 0
    /\ saved_games' = JogosSalvosVazio
    /\ aviso' = Aviso("removidos", 0)
    /\ analise' = SemAnalise
    /\ UNCHANGED <<df_live_clean, df_live_display>>

\* The button "Atualizar Análise de Resultados" when the clock reads now: it reads the
\* saved games and writes none.
AnalisarResultados ==
    /\ \E now \in Relogios :
          analise' = analise_de_resultados(df_resultados, saved_games.linhas, now)
    /\ aviso' = IF Len(saved_games.linhas) > 0 THEN Aviso("analise", 0)
                ELSE Aviso("Nenhum resultado encontrado", 0)
    /\ UNCHANGED <<saved_games, df_live_clean, df_live_display>>

\* A script run after a refresh: the live tables are loaded again and
\* setup_saved_games_tab finds the table in the session state.
Refresh ==
    /\ \E t \in TabelasAoVivo :
          /\ df_live_clean' = t
          /\ df_live_display' = df_display(t)
    /\ aviso' = Aviso("", 0)
    /\ analise' = SemAnalise
    /\ UNCHANGED saved_games

(***************************************************************************)
(* Ranking: gerar_ranking on the table of the statistics engine            *)
(***************************************************************************)

\* Longest match table, largest min_jogos and largest top_n drawn for the rankings.
MaxJogosRanking == 2
MaxMinJogos == 3
MaxTopN == 2

\* The metrics the rankings are asked for: a percentage, an average and a difference.
Metricas == {"Win Rate (%)", "Gols Marcados Média", "Saldo de Gols"}

\* row[metrica_principal] as a fraction.
ValorMetrica(row, metrica) ==
    IF metrica = "Win Rate (%)" THEN row.Win_Rate
    ELSE IF metrica = "Gols Marcados Média" THEN row.Gols_Marcados_Media
    ELSE [n |-> row.Saldo_de_Gols, d |-> 1]

\* a < b for fractions of positive denominators.
Menor(a, b) == a.n * b.d < b.n * a.d

\* df_stats_base[df_stats_base["jogos_total"] >= min_jogos]
Qualificados(df_stats_base, min_jogos) ==
    SelectSeq(df_stats_base, LAMBDA row : row.c.jogos_total >= min_jogos)

\* sort_values in the reverse direction.
EmOrdem_invertida(o, metrica, ascendente) ==
    \A i \in 1..(Len(o) - 1) :
        IF ascendente THEN ~Menor(ValorMetrica(o[i], metrica), ValorMetrica(o[i + 1], metrica))
        ELSE ~Menor(ValorMetrica(o[i + 1], metrica), ValorMetrica(o[i], metrica))

\* o is in the order of sort_values(by=metrica, ascending=ascendente).
EmOrdem(o, metrica, ascendente) ==
    \A i \in 1..(Len(o) - 1) :
        IF ascendente THEN ~Menor(ValorMetrica(o[i + 1], metrica), ValorMetrica(o[i], metrica))
        ELSE ~Menor(ValorMetrica(o[i], metrica), ValorMetrica(o[i + 1], metrica))

\* The orders sort_values can leave the rows in: the sort is quicksort, which promises
\* no order among rows of equal metric.
Ordenacoes(rows, metrica, ascendente) ==
    LET n == Len(rows)
        perms == {f \in [1..n -> 1..n] : \A i, j \in 1..n : i # j => f[i] # f[j]}
    IN  {o \in {[i \in 1..n |-> rows[f[i]]] : f \in perms} : EmOrdem(o, metrica, ascendente)}

\* The medal of the row at position i (from 0) after reset_index, by the name of its
\* emoji; "" for a row without medal.
Medalha(i) ==
    IF i = 0 THEN "ouro" ELSE IF i = 1 THEN "prata" ELSE IF i = 2 THEN "bronze" ELSE ""

\* The value of the metric column as the final loop formats it: "(%)" and "Média" to
\* hundredths, "Saldo" to a signed whole number.
FormataMetrica(row, metrica) ==
    IF metrica = "Saldo de Gols" THEN ValorMetrica(row, metrica).n
    ELSE Formata2(ValorMetrica(row, metrica))

\* The row of "N/A" of an empty ranking, for colunas_exibicao = Jogador, jogos_total and
\* the metric.
LinhaNA == [Jogador |-> [medalha |-> "", nome |-> "N/A"], jogos_total |-> "N/A", valor |-> "N/A"]

\* gerar_ranking(df_stats_base, metrica, ["Jogador", "jogos_total", metrica],
\* ascendente=..., min_jogos=..., top_n=...): the results it can return.  A table without
\* columns has no "jogos_total": line 625 raises KeyError.
gerar_ranking(df_stats_base, metrica, ascendente, min_jogos, top_n) ==
    IF df_stats_base = <<>> THEN {[levanta |-> "KeyError", linhas |-> <<>>]}
    ELSE LET df_ranking == Qualificados(df_stats_base, min_jogos)
         IN  IF Len(df_ranking) = 0 THEN {[levanta |-> "", linhas |-> <<LinhaNA>>]}
             ELSE {[levanta |-> "",
                    linhas |-> [i \in 1..(IF top_n < Len(o) THEN top_n ELSE Len(o)) |->
                                  [Jogador |-> [medalha |-> Medalha(i - 1), nome |-> o[i].Jogador],
                                   jogos_total |-> o[i].c.jogos_total,
                                   valor |-> FormataMetrica(o[i], metrica)]]] :
                      o \in Ordenacoes(df_ranking, metrica, ascendente)}

\* The rows of the match tables of the rankings: three players, each pair once, with
\* three scores.
PartidasRanking ==
    {Partida(c, p) : c \in {<<"GT 12 Min", "Ana", "Bia">>, <<"GT 12 Min", "Bia", "Caio">>,
                            <<"H2H 8 Min", "Caio", "Ana">>},
                     p \in {<<1, 0, 2, 1>>, <<0, 0, 1, 1>>, <<0, 1, 0, 4>>}}

SemRanking == [pedido |-> [metrica |-> "", ascendente |-> FALSE, min_jogos |-> 0, top_n |-> 0],
               levanta |-> "", linhas |-> <<>>]

RankIdle == ranking = SemRanking

\* The statistics engine has returned its table for a match table.
RankInit ==
    /\ pc = "stats"
    /\ pagina_resultados = [header |-> {}, linhas |-> <<>>]
    /\ linhas_resultados = SemLinhas
    /\ \E t \in Tabelas(MaxJogosRanking, PartidasRanking) : df_resultados = DfDe(t)
    /\ erro_resultados = FALSE
    /\ stats_jogador = [q \in Consultas |-> zeros]
    /\ df_stats_all_players = calcular_estatisticas_todos_jogadores(df_resultados)
    /\ recent = SemRecentes
    /\ excecao = ""
    /\ ranking = SemRanking

\* A ranking is asked of the table of the engine.
GerarRanking ==
    /\ pc = "stats"
    /\ \E metrica \in Metricas, ascendente \in BOOLEAN,
          min_jogos \in 0..MaxMinJogos, top_n \in 1..MaxTopN :
          \E r \in gerar_ranking(df_stats_all_players, metrica, ascendente, min_jogos, top_n) :
             ranking' = [pedido |-> [metrica |-> metrica, ascendente |-> ascendente,
                                     min_jogos |-> min_jogos, top_n |-> top_n],
                         levanta |-> r.levanta, linhas |-> r.linhas]
    /\ pc' = "ranking"
    /\ UNCHANGED <<pagina_resultados, linhas_resultados, df_resultados, erro_resultados,
                   stats_jogador, df_stats_all_players, recent, excecao>>

(***************************************************************************)
(* Goal hints: get_over_text on the averages GP and GC                     *)
(***************************************************************************)

\* Largest average drawn for the hints, in thousandths of a goal.
MaxMediaMilli == 5000

SemHint == [jogador |-> "", milesimos |-> 0, texto |-> ""]

HintIdle == hint = SemHint

\* A live row is being built: the average of a player is known and the hint is not.
HintInit ==
    \E j \in Jogadores, m \in 0..MaxMediaMilli :
        hint = [jogador |-> j, milesimos |-> m, texto |-> ""]

\* over_mandante_text = get_over_text(m, gp_calc), over_visitante_text likewise.
GetOverText ==
    /\ hint.texto = ""
    /\ hint' = [hint EXCEPT !.texto = get_over_text(hint.jogador, hint.milesimos, 1000)]

(***************************************************************************)
(* AI prediction: generate_ai_prediction on the results table              *)
(***************************************************************************)

\* Longest results table drawn for the prediction.
MaxJogosIA == 4

\* config of generate_ai_prediction.
JOGOS_POR_LIGA == 20
MIN_SEQUENCIA == 3
MIN_SUCESSO == 70
ligas_config == <<"Battle 8 Min", "Volta 6 Min", "H2H 8 Min", "GT 12 Min">>

\* The markets by their names without the emoji, in the order of the dictionary, and
\* their weights in tenths.
Mercados == <<"1.5+ Gols", "2.5+ Gols", "Over 1.5 HT", "Over 2.5 HT", "Over 2.5 FT",
              "Over 3.5 FT", "BTTS FT">>

Peso10(mercado) ==
    CASE mercado = "1.5+ Gols" -> 12 [] mercado = "2.5+ Gols" -> 15
      [] mercado = "Over 1.5 HT" -> 10 [] mercado = "Over 2.5 HT" -> 13
      [] mercado = "Over 2.5 FT" -> 14 [] mercado = "Over 3.5 FT" -> 16
      [] mercado = "BTTS FT" -> 11

\* config_market["condition"](row, player); the thresholds are halves, compared doubled.
Condicao(mercado, r, p) ==
    LET gols == IF r.Mandante = p THEN r.Mandante_FT ELSE r.Visitante_FT
    IN  CASE mercado = "1.5+ Gols" -> 2 * gols >= 3
          [] mercado = "2.5+ Gols" -> 2 * gols >= 5
          [] mercado = "Over 1.5 HT" -> 2 * r.Total_HT > 3
          [] mercado = "Over 2.5 HT" -> 2 * r.Total_HT > 5
          [] mercado = "Over 2.5 FT" -> 2 * r.Total_FT > 5
          [] mercado = "Over 3.5 FT" -> 2 * r.Total_FT > 7
          [] mercado = "BTTS FT" -> r.Mandante_FT > 0 /\ r.Visitante_FT > 0

\* rows with r placed before the first row that r comes strictly before.
RECURSIVE InserirPorData(_, _)
InserirPorData(rows, r) ==
    IF Len(rows) = 0 THEN <<r>>
    ELSE IF TextoMenor(Head(rows).Data, r.Data) THEN <<r>> \o rows
    ELSE <<Head(rows)>> \o InserirPorData(Tail(rows), r)

\* sort_values("Data", ascending=False): the Data cells are texts, the greatest text
\* first, rows of equal Data in the order of the table.
RECURSIVE OrdenarPorData(_)
OrdenarPorData(rows) ==
    IF Len(rows) = 0 THEN <<>>
    ELSE InserirPorData(OrdenarPorData(SubSeq(rows, 1, Len(rows) - 1)), rows[Len(rows)])

\* .tail(n)
Cauda(rows, n) == IF Len(rows) <= n THEN rows ELSE SubSeq(rows, Len(rows) - n + 1, Len(rows))

\* df_recente: the last JOGOS_POR_LIGA rows of each league of config, league by league.
df_recente(df) ==
    LET DaLiga(k) == Cauda(SelectSeq(df.linhas, LAMBDA r : r.Liga = ligas_config[k]), JOGOS_POR_LIGA)
    IN  DaLiga(1) \o DaLiga(2) \o DaLiga(3) \o DaLiga(4)

\* The elements of a sequence without repetitions, in the order of first appearance.
RECURSIVE Unicos(_)
Unicos(nomes) ==
    IF Len(nomes) = 0 THEN <<>>
    ELSE LET antes == Unicos(SubSeq(nomes, 1, Len(nomes) - 1))
             ultimo == nomes[Len(nomes)]
         IN  IF \E i \in 1..Len(antes) : antes[i] = ultimo THEN antes ELSE Append(antes, ultimo)

\* all_players = pd.concat([Mandante, Visitante]).unique()
all_players(rec) ==
    Unicos([i \in 1..Len(rec) |-> rec[i].Mandante] \o [i \in 1..Len(rec) |-> rec[i].Visitante])

\* player_matches: the rows of the player in df_recente, sorted by Data.
player_matches(rec, player) ==
    OrdenarPorData(SelectSeq(rec, LAMBDA r : r.Mandante = player \/ r.Visitante = player))

\* The loop over player_matches of one market: [seq, current_seq, hits] after the rows.
RECURSIVE LacoMercado(_, _, _)
LacoMercado(rows, mercado, player) ==
    IF Len(rows) = 0 THEN [seq |-> 0, current_seq |-> 0, hits |-> 0]
    ELSE LET e == LacoMercado(SubSeq(rows, 1, Len(rows) - 1), mercado, player)
         IN  IF Condicao(mercado, rows[Len(rows)], player)
             THEN [seq |-> IF e.current_seq + 1 > e.seq THEN e.current_seq + 1 ELSE e.seq,
                   current_seq |-> e.current_seq + 1,
                   hits |-> e.hits + 1]
             ELSE [e EXCEPT !.current_seq = 0]

\* f"{x:.0f}" of x = n / d >= 0: the nearest whole number, the even one when halfway.
Formata0(x) ==
    LET q == x.n \div x.d
        r2 == 2 * (x.n % x.d)
    IN  IF r2 > x.d \/ (r2 = x.d /\ q % 2 = 1) THEN q + 1 ELSE q

\* The markets (by position) for which a player adds an entry to sequences_data.
MercadosRetidos(rec, player) ==
    LET pm == player_matches(rec, player)
        Retida(k) ==
            LET e == LacoMercado(pm, Mercados[k], player)
            IN  e.seq >= MIN_SEQUENCIA /\ 100 * e.hits >= MIN_SUCESSO * Len(pm)
    IN  IF Len(pm) < MIN_SEQUENCIA THEN <<>>
        ELSE SelectSeq([k \in 1..Len(Mercados) |-> k], Retida)

\* sequences_data: the entries of every player of all_players, in that order.  Score is
\* the exact product seq x weight x hits / len (the source computes it in floating point).
RECURSIVE sequences_data(_, _)
sequences_data(rec, players) ==
    IF Len(players) = 0 THEN <<>>
    ELSE LET player == players[Len(players)]
             pm == player_matches(rec, player)
             ks == MercadosRetidos(rec, player)
         IN  sequences_data(rec, SubSeq(players, 1, Len(players) - 1))
             \o [i \in 1..Len(ks) |->
                   LET e == LacoMercado(pm, Mercados[ks[i]], player)
                   IN  [Jogador |-> player, Sequencia |-> e.seq, Mercado |-> Mercados[ks[i]],
                        Taxa |-> Formata0([n |-> 100 * e.hits, d |-> Len(pm)]),
                        Liga |-> pm[1].Liga,
                        Score |-> [n |-> e.seq * Peso10(Mercados[ks[i]]) * e.hits,
                                   d |-> 10 * Len(pm)],
                        Jogos_Analisados |-> Len(pm),
                        Ultimo_Jogo |-> pm[1].Data]]

\* Entry a comes strictly before entry b in the order of Data as dates.
VemAntes_por_data(a, b) ==
    \/ Menor(b.Score, a.Score)
    \/ /\ ~Menor(a.Score, b.Score)
       /\ 100 * ValorDigitos(SubSeq(a.Ultimo_Jogo, 4, 5)) + ValorDigitos(SubSeq(a.Ultimo_Jogo, 1, 2))
            > 100 * ValorDigitos(SubSeq(b.Ultimo_Jogo, 4, 5)) + ValorDigitos(SubSeq(b.Ultimo_Jogo, 1, 2))

\* Entry a comes strictly before entry b in sort_values(["Score", "Último Jogo"],
\* ascending=[False, False]): the greater Score, then the greater text.
VemAntes(a, b) ==
    \/ Menor(b.Score, a.Score)
    \/ ~Menor(a.Score, b.Score) /\ TextoMenor(b.Ultimo_Jogo, a.Ultimo_Jogo)

RECURSIVE InserirEntrada(_, _)
InserirEntrada(es, e) ==
    IF Len(es) = 0 THEN <<e>>
    ELSE IF VemAntes(e, Head(es)) THEN <<e>> \o es
    ELSE <<Head(es)>> \o InserirEntrada(Tail(es), e)

\* df_sorted: the entries in the order of the two keys, equal entries in the order of
\* sequences_data.
RECURSIVE df_sorted(_)
df_sorted(es) ==
    IF Len(es) = 0 THEN <<>>
    ELSE InserirEntrada(df_sorted(SubSeq(es, 1, Len(es) - 1)), es[Len(es)])

\* generate_ai_prediction(df_resultados): the rows of the table it shows (none when it
\* returns early or finds no entry).
generate_ai_prediction(df) ==
    IF DfEmpty(df) THEN <<>>
    ELSE LET rec == df_recente(df)
         IN  IF Len(rec) = 0 THEN <<>>
             ELSE df_sorted(sequences_data(rec, all_players(rec)))

\* Data cells: 30/01, 31/01 and 01/02.
Data_30_01 == <<"3", "0", "/", "0", "1">>
Data_31_01 == <<"3", "1", "/", "0", "1">>
Data_01_02 == <<"0", "1", "/", "0", "2">>

\* The rows of the results tables of the prediction: Ana against Bia, Ana against Caio
\* and Duda against Bia, each on two days, with a score that hits every market but
\* "2.5+ Gols" and "Over 2.5 HT" and one that hits none.
PartidasIA ==
    UNION {{[Partida(c[1], p) EXCEPT !.Data = d] :
               p \in {<<1, 1, 2, 2>>, <<0, 0, 1, 0>>}, d \in c[2]} :
           c \in {<<<<"GT 12 Min", "Ana", "Bia">>, {Data_30_01, Data_31_01}>>,
                  <<<<"H2H 8 Min", "Ana", "Caio">>, {Data_31_01, Data_01_02}>>,
                  <<<<"GT 12 Min", "Duda", "Bia">>, {Data_30_01, Data_01_02}>>}}

IAIdle == previsao = <<>>

\* buscar_resultados has returned a table and the prediction tab is not drawn yet.
IAInit ==
    /\ pc = "stats"
    /\ pagina_resultados = [header |-> {}, linhas |-> <<>>]
    /\ linhas_resultados = SemLinhas
    /\ \E t \in Tabelas(MaxJogosIA, PartidasIA) : df_resultados = DfDe(t)
    /\ erro_resultados = FALSE
    /\ StatsIdle
    /\ previsao = <<>>

\* The tab "Previsão IA" is drawn.
GenerateAiPrediction ==
    /\ pc = "stats"
    /\ previsao' = generate_ai_prediction(df_resultados)
    /\ pc' = "previsao"
    /\ UNCHANGED <<pagina_resultados, linhas_resultados, df_resultados, erro_resultados>>

\* Longest results table of the prediction over one pair of players.
MaxJogosLongos == 7

\* The rows of those tables: Ana against Bia in the GT League on one day, ending 2-2
\* (HT 1-1) or 1-0 (HT 0-0).
PartidasLongas ==
    {[Partida(<<"GT 12 Min", "Ana", "Bia">>, p) EXCEPT !.Data = Data_31_01] :
        p \in {<<1, 1, 2, 2>>, <<0, 0, 1, 0>>}}

\* buscar_resultados has returned a table of the matches of one pair and the prediction
\* tab is not drawn yet.
IALongaInit ==
    /\ pc = "stats"
    /\ pagina_resultados = [header |-> {}, linhas |-> <<>>]
    /\ linhas_resultados = SemLinhas
    /\ \E t \in Tabelas(MaxJogosLongos, PartidasLongas) : df_resultados = DfDe(t)
    /\ erro_resultados = FALSE
    /\ StatsIdle
    /\ previsao = <<>>

\* Longest table of saved games and longest match table drawn for the analysis.
MaxSalvos == 2
MaxResultados == 2

\* The saved games of the analysis: Ana against Bia or Caio, at 10:00 or 22:00, with
\* two suggestions or with one.
JogosAnalise ==
    {[Hora |-> h, Liga |-> "GT 12 Min", Mandante |-> "Ana", Visitante |-> v,
      Sugestao_HT |-> s[1], Sugestao_FT |-> s[2]] :
        h \in {"10:00", "22:00"}, v \in {"Bia", "Caio"},
        s \in {<<"Over 0.5 HT", "Over 1.5 FT">>, <<"Sem Entrada", "Over 2.5 FT">>}}

\* The records of the match table of the analysis: Ana against Bia on two days with
\* two scores, and Ana against Caio.
PartidasAnalise ==
    {[Partida(<<"GT 12 Min", "Ana", "Bia">>, p) EXCEPT !.Data = d] :
        p \in {<<0, 0, 1, 0>>, <<1, 1, 2, 2>>}, d \in {<<"3", "0", "/", "0", "1">>,
                                                     <<"3", "1", "/", "0", "1">>}}
    \cup {[Partida(<<"GT 12 Min", "Ana", "Caio">>, <<1, 0, 2, 1>>)
              EXCEPT !.Data = <<"3", "1", "/", "0", "1">>]}

\* The saved-games tab is drawn with games saved earlier in the session and the table
\* buscar_resultados returned.
AnaliseInit ==
    /\ pc = "stats"
    /\ pagina_resultados = [header |-> {}, linhas |-> <<>>]
    /\ linhas_resultados = SemLinhas
    /\ \E t \in Tabelas(MaxResultados, PartidasAnalise) : df_resultados = DfDe(t)
    /\ erro_resultados = FALSE
    /\ StatsIdle
    /\ \E g \in Tabelas(MaxSalvos, JogosAnalise) :
          saved_games = IF Len(g) = 0 THEN JogosSalvosVazio
                        ELSE [colunas |-> ColunasSelecionadas, linhas |-> g]
    /\ aviso = Aviso("", 0)
    /\ analise = SemAnalise

\* Greatest total of goals drawn for calculate_profit.
MaxTotal == 7

\* The odds calculate_profit is called with: 1.60 and those of the projection.
Odds == {160} \cup {odds_range[k] : k \in 1..Len(odds_range)}

\* The suggestions calculate_profit is called with: those of the suggester, the empty
\* text and the default 'N/A'.
SugestoesDaAposta == SugestoesOver \cup {"", "Sem Entrada", "N/A"}

LucroIdle == lucro = [suggestion |-> "", actual_score |-> 0, feito |-> FALSE, valores |-> [o \in Odds |-> 0]]

\* A suggestion and the total of goals of a match.
LucroInit ==
    \E s \in SugestoesDaAposta, t \in 0..MaxTotal :
        lucro = [suggestion |-> s, actual_score |-> t, feito |-> FALSE,
                 valores |-> [o \in Odds |-> 0]]

\* calculate_profit is called for the bet with each odd.
CalculateProfit ==
    /\ ~lucro.feito
    /\ lucro' = [lucro EXCEPT !.feito = TRUE,
                              !.valores = [o \in Odds |->
                                  calculate_profit(lucro.suggestion, lucro.actual_score, o)]]

(***************************************************************************)
(* Specifications                                                          *)
(***************************************************************************)

SugNext == SugerirOver /\ UNCHANGED <<varsRes, varsStats, excecao, varsLive, varsCache, varsSaved, varsRank, varsHint, varsIA, varsLucro>>

\* The market suggester on every pair of averages.
InitSug == SugInit /\ ResIdle /\ StatsIdle /\ LiveIdle /\ CacheIdle /\ SavedIdle /\ RankIdle /\ HintIdle /\ IAIdle /\ LucroIdle
SpecSug == InitSug /\ [][SugNext]_vars

PlacarNext == BuscarResultados /\ UNCHANGED <<varsSug, varsStats, varsLive, varsCache, varsSaved, varsRank, varsHint, varsIA, varsLucro>>

\* buscar_resultados on every score text.
InitPlacar == PlacarInit /\ SugIdle /\ StatsIdle /\ LiveIdle /\ CacheIdle /\ SavedIdle /\ RankIdle /\ HintIdle /\ IAIdle /\ LucroIdle
SpecPlacar == InitPlacar /\ [][PlacarNext]_vars

StatsNext ==
    \/ CalcularEstatisticasJogador /\ UNCHANGED <<varsSug, varsLive, varsCache, varsSaved, varsRank, varsHint, varsIA, varsLucro>>
    \/ CalcularEstatisticasTodosJogadores /\ UNCHANGED <<varsSug, varsLive, varsCache, varsSaved, varsRank, varsHint, varsIA, varsLucro>>
    \/ GetRecentPlayerStats /\ UNCHANGED <<varsSug, varsLive, varsCache, varsSaved, varsRank, varsHint, varsIA, varsLucro>>

\* The statistics engine on every match table.
InitStats == StatsInit /\ SugIdle /\ LiveIdle /\ CacheIdle /\ SavedIdle /\ RankIdle /\ HintIdle /\ IAIdle /\ LucroIdle
SpecStats == InitStats /\ [][StatsNext]_vars

RecentNext == GetRecentPlayerStats /\ UNCHANGED <<varsSug, varsLive, varsCache, varsSaved, varsRank, varsHint, varsIA, varsLucro>>

\* get_recent_player_stats on every match table and window.
InitRecent == RecentInit /\ SugIdle /\ LiveIdle /\ CacheIdle /\ SavedIdle /\ RankIdle /\ HintIdle /\ IAIdle /\ LucroIdle
SpecRecent == InitRecent /\ [][RecentNext]_vars

RenderNext ==
    \/ ExtrairResultados /\ UNCHANGED <<varsSug, varsStats, varsCache, varsSaved, varsRank, varsHint, varsIA, varsLucro>>
    \/ BuscarResultados /\ UNCHANGED <<varsSug, varsStats, varsLive, varsCache, varsSaved, varsRank, varsHint, varsIA, varsLucro>>
    \/ ExtrairAoVivo /\ UNCHANGED <<varsSug, varsStats, varsCache, varsSaved, varsRank, varsHint, varsIA, varsLucro>>
    \/ CarregarDadosAoVivo /\ UNCHANGED <<varsSug, varsStats, varsCache, varsSaved, varsRank, varsHint, varsIA, varsLucro>>
    \/ CalcularEstatisticasTodosJogadores /\ UNCHANGED <<varsSug, varsLive, varsCache, varsSaved, varsRank, varsHint, varsIA, varsLucro>>

\* One render cycle of app() on every pair of pages and of network outcomes.
InitRender == RenderInit /\ SugIdle /\ StatsIdle /\ CacheIdle /\ SavedIdle /\ RankIdle /\ HintIdle /\ IAIdle /\ LucroIdle
SpecRender == InitRender /\ [][RenderNext]_vars

CacheNext ==
    \/ AutoRefresh /\ UNCHANGED <<varsSug, varsRes, varsStats, excecao, varsLive, varsSaved, varsRank, varsHint, varsIA, varsLucro>>
    \/ AcaoDoUsuario /\ UNCHANGED <<varsSug, varsRes, varsStats, excecao, varsLive, varsSaved, varsRank, varsHint, varsIA, varsLucro>>
    \/ PassaTempo /\ UNCHANGED <<varsSug, varsRes, varsStats, excecao, varsLive, varsSaved, varsRank, varsHint, varsIA, varsLucro>>

\* The script run again and again, by the timer and by the user, as time passes.
InitCache == CacheIdle /\ SugIdle /\ ResIdle /\ StatsIdle /\ LiveIdle /\ SavedIdle /\ RankIdle /\ HintIdle /\ IAIdle /\ LucroIdle
SpecCache == InitCache /\ [][CacheNext]_vars

varsLiveResto == <<http, gets, pagina_ao_vivo, linhas_ao_vivo, erro_ao_vivo>>

SavedNext ==
    \/ SalvarJogosSelecionados
         /\ UNCHANGED <<varsSug, varsRes, varsStats, excecao, varsLiveResto, varsCache, varsRank, varsHint, varsIA, varsLucro>>
    \/ LimparTodos
         /\ UNCHANGED <<varsSug, varsRes, varsStats, excecao, varsLiveResto, varsCache, varsRank, varsHint, varsIA, varsLucro>>
    \/ AnalisarResultados
         /\ UNCHANGED <<varsSug, varsRes, varsStats, excecao, varsLiveResto, varsCache, varsRank, varsHint, varsIA, varsLucro>>
    \/ Refresh
         /\ UNCHANGED <<varsSug, varsRes, varsStats, excecao, varsLiveResto, varsCache, varsRank, varsHint, varsIA, varsLucro>>

\* A session of the saved-games tabs: saving, clearing, analysing and refreshing, in
\* any order.
InitSaved == SavedInit /\ SugIdle /\ ResIdle /\ StatsIdle /\ CacheIdle /\ RankIdle /\ HintIdle /\ IAIdle /\ LucroIdle
SpecSaved == InitSaved /\ [][SavedNext]_vars

RankNext == GerarRanking /\ UNCHANGED <<varsSug, varsLive, varsSaved, varsCache, varsHint, varsIA, varsLucro>>

\* The rankings of the tables the engine returns.
InitRank == RankInit /\ SugIdle /\ LiveIdle /\ SavedIdle /\ CacheIdle /\ HintIdle /\ IAIdle /\ LucroIdle
SpecRank == InitRank /\ [][RankNext]_vars

HintNext ==
    GetOverText /\ UNCHANGED <<varsSug, varsRes, varsStats, excecao, varsLive, varsSaved,
                               varsRank, varsCache, varsIA, varsLucro>>

\* The hint of every average up to MaxMediaMilli thousandths.
InitHint == HintInit /\ SugIdle /\ ResIdle /\ StatsIdle /\ LiveIdle /\ SavedIdle /\ RankIdle /\ CacheIdle /\ IAIdle /\ LucroIdle
SpecHint == InitHint /\ [][HintNext]_vars

IANext ==
    GenerateAiPrediction /\ UNCHANGED <<varsSug, varsStats, excecao, varsLive, varsSaved,
                                        varsRank, varsHint, varsCache, varsLucro>>

\* The prediction of the tables buscar_resultados returns.
InitIA == IAInit /\ SugIdle /\ LiveIdle /\ SavedIdle /\ RankIdle /\ HintIdle /\ CacheIdle /\ LucroIdle
SpecIA == InitIA /\ [][IANext]_vars

AnaliseNext ==
    AnalisarResultados /\ UNCHANGED <<varsSug, varsRes, varsStats, excecao, varsLiveResto, varsCache, varsRank, varsHint, varsIA, varsLucro>>

\* The results analysis of the games saved in a session.
InitAnalise == AnaliseInit /\ SugIdle /\ LiveIdle /\ RankIdle /\ HintIdle /\ IAIdle /\ CacheIdle /\ LucroIdle
SpecAnalise == InitAnalise /\ [][AnaliseNext]_vars

LucroNext ==
    CalculateProfit /\ UNCHANGED <<varsSug, varsRes, varsStats, excecao, varsLive, varsSaved, varsCache, varsRank, varsHint, varsIA>>

\* Every call of calculate_profit.
InitLucro == LucroInit /\ SugIdle /\ ResIdle /\ StatsIdle /\ LiveIdle /\ SavedIdle /\ RankIdle /\ HintIdle /\ IAIdle /\ CacheIdle
SpecLucro == InitLucro /\ [][LucroNext]_vars

IALongaNext ==
    GenerateAiPrediction /\ UNCHANGED <<varsSug, varsStats, excecao, varsLive, varsSaved, varsRank, varsHint, varsCache, varsLucro>>

\* The prediction of the longer tables of one pair of players.
InitIALonga == IALongaInit /\ SugIdle /\ LiveIdle /\ SavedIdle /\ RankIdle /\ HintIdle /\ CacheIdle /\ LucroIdle
SpecIALonga == InitIALonga /\ [][IALongaNext]_vars

(***************************************************************************)
(* Claims                                                                  *)
(***************************************************************************)

\* C1: every row of the match table returned by buscar_resultados has Total HT =
\* Mandante HT + Visitante HT and Total FT = Mandante FT + Visitante FT, and each total is
\* at least each of its two components (no parsed goal component is negative), for every
\* score text of the page.
C1_TotalInvariant ==
    pc = "resultados" =>
        \A i \in 1..Len(df_resultados.linhas) :
            LET r == df_resultados.linhas[i]
            IN  /\ r.Total_HT = r.Mandante_HT + r.Visitante_HT
                /\ r.Total_FT = r.Mandante_FT + r.Visitante_FT
                /\ r.Total_HT >= r.Mandante_HT /\ r.Total_HT >= r.Visitante_HT
                /\ r.Total_FT >= r.Mandante_FT /\ r.Total_FT >= r.Visitante_FT

\* A side of a score is numeric when it is a run of digits, possibly after a sign.
LadoNumerico(t) == EhSoDigitos(t) \/ (Len(t) > 1 /\ t[1] = "-" /\ EhSoDigitos(Tail(t)))

ValorInteiro(t) == IF t[1] = "-" THEN 0 - ValorDigitos(Tail(t)) ELSE ValorDigitos(t)

\* C2: for each score cell buscar_resultados removes the spaces, splits on the first
\* "x" and converts each side to an integer; a side that is missing or not numeric
\* becomes 0, and the row is kept (the batch does not fail).
C2_PlacarSplit ==
    pc = "resultados" =>
        /\ ~erro_resultados
        /\ Len(df_resultados.linhas) = Len(pagina_resultados.linhas)
        /\ \A i \in 1..Len(df_resultados.linhas) :
               LET lados == SplitX(SemEspacos(pagina_resultados.linhas[i].PlacarHT))
                   r == df_resultados.linhas[i]
               IN  /\ ~LadoNumerico(lados[1]) => r.Mandante_HT = 0
                   /\ ~LadoNumerico(lados[2]) => r.Visitante_HT = 0
                   /\ LadoNumerico(lados[1]) => r.Mandante_HT = ValorInteiro(lados[1])
                   /\ LadoNumerico(lados[2]) => r.Visitante_HT = ValorInteiro(lados[2])

\* The Over lines of the two halves: <<N, counter of Over N.5>>.
LinhasOverHT == {<<0, "over_05_ht_hits">>, <<1, "over_15_ht_hits">>, <<2, "over_25_ht_hits">>}

LinhasOverFT == {<<0, "over_05_ft_hits">>, <<1, "over_15_ft_hits">>, <<2, "over_25_ft_hits">>,
                 <<3, "over_35_ft_hits">>, <<4, "over_45_ft_hits">>, <<5, "over_55_ft_hits">>,
                 <<6, "over_65_ft_hits">>}

\* The matches of a player in a table: the rows that name the player on either side.
PartidasDoJogador(df, jogador) ==
    SelectSeq(df.linhas, LAMBDA r : r.Mandante = jogador \/ r.Visitante = jogador)

\* The counters c are the counts over the matches rows: each Over N.5 counter is the
\* number of rows whose Total is greater than N.
ContaPorPartida(c, rows) ==
    /\ \A l \in LinhasOverHT :
           c[l[2]] = Len(SelectSeq(rows, LAMBDA r : r.Total_HT > l[1]))
    /\ \A l \in LinhasOverFT :
           c[l[2]] = Len(SelectSeq(rows, LAMBDA r : r.Total_FT > l[1]))

\* C3: after calcular_estatisticas_jogador and calcular_estatisticas_todos_jogadores
\* have scanned the match table, each Over N.5 counter of a player (HT: N in 0..2,
\* FT: N in 0..6) is the number of the player's matches whose Total is greater than N,
\* and under_25_ft_hits is jogos_total minus over_25_ft_hits.
C3_OverHits ==
    /\ pc \in {"ao_vivo", "stats", "analise"} =>
           \A q \in Consultas :
               ContaPorPartida(stats_jogador[q],
                               SelectSeq(PartidasDoJogador(df_resultados, q[1]),
                                         LAMBDA r : r.Liga = q[2]))
    /\ pc \in {"stats", "analise"} =>
           \A i \in 1..Len(df_stats_all_players) :
               LET linha == df_stats_all_players[i]
               IN  /\ ContaPorPartida(linha.c, PartidasDoJogador(df_resultados, linha.Jogador))
                   /\ linha.c.under_25_ft_hits = linha.c.jogos_total - linha.c.over_25_ft_hits

\* A percentage n/d (d > 0) within 0..100.
EmPercentagem(f) == f.d > 0 /\ 0 <= f.n /\ f.n <= 100 * f.d

\* The hit counters format_stats hands to cor_icon.
ContadoresDeAcerto == DOMAIN zeros \ {"jogos_total", "gols_marcados", "gols_sofridos",
                                      "gols_marcados_ht", "gols_sofridos_ht"}

\* C4: every percentage of calcular_estatisticas_todos_jogadores, every pct_* field of
\* get_recent_player_stats and every ratio of cor_icon is within 0..100 (the ratio:
\* 0..1) for a player with at least one game, and the value is there and is 0 for a
\* player or a window with no game.
C4_Percentuais ==
    /\ pc \in {"stats", "analise"} =>
           \A i \in 1..Len(df_stats_all_players) :
               LET linha == df_stats_all_players[i]
               IN  \A col \in ColunasPct :
                       IF linha.c.jogos_total >= 1 THEN EmPercentagem(linha[col])
                       ELSE linha[col].n = 0
    /\ pc \in {"ao_vivo", "stats", "analise"} =>
           \A q \in Consultas : \A k \in ContadoresDeAcerto :
               LET t == stats_jogador[q].jogos_total
                   ratio == RatioCorIcon(stats_jogador[q][k], t)
               IN  IF t >= 1 THEN 0 <= ratio.n /\ ratio.n <= ratio.d
                   ELSE ratio.n = 0
    /\ pc = "analise" =>
           \A q \in Janelas :
               LET jogos == player_games(df_resultados, q[1], q[2])
               IN  /\ ChavesPct \subseteq recent[q].chaves
                   /\ \A k \in ChavesPct :
                          IF Len(jogos) >= 1 THEN EmPercentagem(recent[q].derivados[k])
                          ELSE recent[q].derivados[k].n = 0

\* The two ladders as the specification lists them: <<cut-off in hundredths, line>>.
EscadaFT == {<<670, "Over 5.5 FT">>, <<570, "Over 4.5 FT">>, <<450, "Over 3.5 FT">>,
             <<345, "Over 2.5 FT">>, <<240, "Over 1.5 FT">>, <<200, "Over 0.5 FT">>}
EscadaHT == {<<275, "Over 2.5 HT">>, <<220, "Over 1.5 HT">>, <<170, "Over 0.5 HT">>}

\* The line of the highest cut-off of the ladder that the average a (hundredths) reaches.
LinhaDaEscada(escada, a) ==
    IF \E r \in escada : a >= r[1]
    THEN (CHOOSE r \in escada : a >= r[1] /\ \A q \in escada : a >= q[1] => q[1] <= r[1])[2]
    ELSE "Sem Entrada"

\* The order of the suggested lines: no entry lowest, then by goal threshold.
OrdemLinha(linha) ==
    CASE linha = "Sem Entrada" -> 0
      [] linha \in {"Over 0.5 FT", "Over 0.5 HT"} -> 1
      [] linha \in {"Over 1.5 FT", "Over 1.5 HT"} -> 2
      [] linha \in {"Over 2.5 FT", "Over 2.5 HT"} -> 3
      [] linha = "Over 3.5 FT" -> 4
      [] linha = "Over 4.5 FT" -> 5
      [] linha = "Over 5.5 FT" -> 6

\* C5: for every average, sugerir_over_ft and sugerir_over_ht return the line of the
\* first ladder rung (highest cut-off first, >= comparison) the average reaches, and
\* "Sem Entrada" below the lowest rung; an average exactly on a cut-off gets its line.
C5_Escada ==
    sugestoes # SemSugestoes =>
        /\ sugestoes.ft_a = LinhaDaEscada(EscadaFT, media[1])
        /\ sugestoes.ft_b = LinhaDaEscada(EscadaFT, media[2])
        /\ sugestoes.ht_a = LinhaDaEscada(EscadaHT, media[1])
        /\ sugestoes.ht_b = LinhaDaEscada(EscadaHT, media[2])

\* An average exactly on the 3.45 cut-off got "Over 2.5 FT", one just below it did not.
C5_Witness ==
    /\ media = <<344, 345>>
    /\ sugestoes.ft_a = "Over 1.5 FT"
    /\ sugestoes.ft_b = "Over 2.5 FT"

\* C6: the ladders are monotonic: for averages a <= b the line suggested for b is
\* never lower than the line suggested for a, cut-off values included.
C6_Monotonic ==
    sugestoes # SemSugestoes =>
        /\ OrdemLinha(sugestoes.ft_a) <= OrdemLinha(sugestoes.ft_b)
        /\ OrdemLinha(sugestoes.ht_a) <= OrdemLinha(sugestoes.ht_b)

\* Both lines were computed for a pair that straddles several rungs (4.50 and 5.70).
C6_Witness ==
    /\ media = <<450, 570>>
    /\ sugestoes.ft_a = "Over 3.5 FT"
    /\ sugestoes.ft_b = "Over 4.5 FT"
    /\ sugestoes.ht_a = "Over 2.5 HT"

\* The outcome of a match for a player, who is the home player when the row names
\* the player as Mandante.
ResultadoPara(row, jogador) ==
    LET casa == row.Mandante = jogador
        gf == IF casa THEN row.Mandante_FT ELSE row.Visitante_FT
        ga == IF casa THEN row.Visitante_FT ELSE row.Mandante_FT
    IN  IF gf > ga THEN "win" ELSE IF gf < ga THEN "loss" ELSE "draw"

AmbosMarcam(row) == row.Mandante_FT > 0 /\ row.Visitante_FT > 0

\* The number of consecutive rows at the end of rows that satisfy P.
NoFim(rows, P(_)) ==
    LET n == Len(rows)
    IN  CHOOSE k \in 0..n :
            /\ \A i \in (n - k + 1)..n : P(rows[i])
            /\ k < n => ~P(rows[n - k])

\* C7: after get_recent_player_stats has iterated a window with at least one match,
\* sequencia_vitorias is the number of consecutive wins at the end of the window (0
\* when the last match is not a win), and sequencia_derrotas, sequencia_empates,
\* sequencia_btts and sequencia_over_25_ft are the same for their outcomes.
C7_Sequencias ==
    pc = "analise" =>
        \A q \in Janelas :
            LET jogos == player_games(df_resultados, q[1], q[2])
                st == recent[q].stats
            IN  Len(jogos) > 0 =>
                    /\ st.sequencia_vitorias =
                           NoFim(jogos, LAMBDA r : ResultadoPara(r, q[1]) = "win")
                    /\ st.sequencia_derrotas =
                           NoFim(jogos, LAMBDA r : ResultadoPara(r, q[1]) = "loss")
                    /\ st.sequencia_empates =
                           NoFim(jogos, LAMBDA r : ResultadoPara(r, q[1]) = "draw")
                    /\ st.sequencia_btts = NoFim(jogos, AmbosMarcam)
                    /\ st.sequencia_over_25_ft = NoFim(jogos, LAMBDA r : r.Total_FT > 2)

\* The window [win, win, loss, win] has been iterated and the win streak is 1.
C7_Witness ==
    /\ pc = "analise"
    /\ \E q \in Janelas :
          LET jogos == player_games(df_resultados, q[1], q[2])
          IN  /\ [i \in 1..Len(jogos) |-> ResultadoPara(jogos[i], q[1])]
                     = <<"win", "win", "loss", "win">>
              /\ recent[q].stats.sequencia_vitorias = 1

\* The league names the results page uses: the keys of the results map.
LigasDaPaginaDeResultados == {"GT League", "H2H 8m", "Battle 8m", "Battle 6m"}

\* C8: the results map and the live map produce the same four names, one for each of
\* their four keys, which are the leagues of the smart tips and of the AI prediction;
\* "GT League" and "E-soccer - GT Leagues - 12 mins de jogo" both become "GT 12 Min";
\* and in the tables of a render cycle every row of a mapped league carries one of the
\* four names, so that the games a live row counts (J1, J2) are the historical rows of
\* its players under the same name.
C8_LigasCanonicas ==
    /\ {mapa_ligas_resultados(l) : l \in LigasDaPaginaDeResultados} = ligas_principais
    /\ {mapa_ligas_ao_vivo(l) : l \in COMPETICOES_PERMITIDAS} = ligas_principais
    /\ ligas_previsao_ia = ligas_principais
    /\ Cardinality(ligas_principais) = Cardinality(LigasDaPaginaDeResultados)
    /\ Cardinality(ligas_principais) = Cardinality(COMPETICOES_PERMITIDAS)
    /\ mapa_ligas_resultados("GT League") = "GT 12 Min"
    /\ mapa_ligas_ao_vivo("E-soccer - GT Leagues - 12 mins de jogo") = "GT 12 Min"
    /\ pc \in {"resultados", "extraido_ao_vivo", "ao_vivo", "stats", "falha"} =>
           \A i \in 1..Len(df_resultados.linhas) :
               pagina_resultados.linhas[i].Campeonato \in LigasDaPaginaDeResultados
                   => df_resultados.linhas[i].Liga \in ligas_principais
    /\ pc \in {"ao_vivo", "stats", "falha"} =>
           \A i \in 1..Len(df_live_clean) :
               LET r == df_live_clean[i]
                   historico(j) ==
                       SelectSeq(df_resultados.linhas,
                                 LAMBDA h : h.Liga = r.Liga /\ (h.Mandante = j \/ h.Visitante = j))
               IN  /\ r.Liga \in ligas_principais
                   /\ r.J1 >= Len(historico(r.Mandante))
                   /\ r.J2 >= Len(historico(r.Visitante))

\* A live row of the GT competition has found the GT League row of its home player.
C8_Witness ==
    /\ pc = "ao_vivo"
    /\ \E i \in 1..Len(pagina_resultados.linhas) :
          pagina_resultados.linhas[i].Campeonato = "GT League"
    /\ \E i \in 1..Len(pagina_ao_vivo.linhas) :
          pagina_ao_vivo.linhas[i].Competicao = "E-soccer - GT Leagues - 12 mins de jogo"
    /\ \E i \in 1..Len(df_live_clean) :
          df_live_clean[i].Liga = "GT 12 Min" /\ df_live_clean[i].J1 >= 1

\* C9: a call of requisicao_segura issues exactly one GET, whatever the outcome; when
\* the GET meets a network or HTTP error nothing is raised, extrair_dados_pagina
\* returns no row, and buscar_resultados and carregar_dados_ao_vivo return empty
\* tables without going through their except branches.
C9_FalhaDeRede ==
    /\ gets["URL_RESULTADOS"] = IF pc = "inicio" THEN 0 ELSE 1
    /\ gets["URL_AO_VIVO"] = IF pc \in {"inicio", "extraido", "resultados"} THEN 0 ELSE 1
    /\ http["URL_RESULTADOS"] # "ok" =>
           /\ linhas_resultados.vazio
           /\ DfEmpty(df_resultados)
           /\ ~erro_resultados
           /\ excecao = ""
    /\ http["URL_AO_VIVO"] # "ok" =>
           /\ linhas_ao_vivo.vazio
           /\ df_live_clean = <<>>
           /\ ~erro_ao_vivo

\* Both GETs have failed and the render cycle has ended with empty tables.
C9_Witness ==
    /\ pc = "stats"
    /\ http["URL_RESULTADOS"] = "Timeout"
    /\ http["URL_AO_VIVO"] = "HTTPError"
    /\ gets = [u \in URLs |-> 1]
    /\ DfEmpty(df_resultados)
    /\ df_live_clean = <<>>
    /\ df_stats_all_players = <<>>

\* C10: whatever the results page holds, a render cycle that runs buscar_resultados,
\* carregar_dados_ao_vivo and calcular_estatisticas_todos_jogadores ends with tables
\* and no exception leaves app().
C10_SemExcecao == excecao = "" /\ pc # "falha"

\* C11: two GETs of the same URL are never less than 300 seconds apart (so a window
\* of 300 seconds holds at most one), whether the first succeeded or failed; and a
\* render that issues no GET shows what the cache holds.
C11_UmGetPorJanela ==
    /\ \A u \in URLs : \A i \in 1..(Len(gets_em[u]) - 1) :
           gets_em[u][i + 1] - gets_em[u][i] >= TTL
    /\ exibido.gets = 0 /\ agora > 0 =>
           /\ exibido.resultados = cache[ChaveTodos].valor.resultados
           /\ exibido.ao_vivo = cache[ChaveTodos].valor.ao_vivo

\* The results page has been fetched twice, 300 seconds apart; the second fetch failed
\* and a later render has reused its empty result without a GET.
C11_Witness ==
    /\ Len(gets_em["URL_RESULTADOS"]) = 2
    /\ gets_em["URL_RESULTADOS"][2] - gets_em["URL_RESULTADOS"][1] = TTL
    /\ cache[<<"extrair_dados_pagina", "URL_RESULTADOS">>].valor = "vazio"
    /\ agora > gets_em["URL_RESULTADOS"][2]
    /\ exibido.gets = 0
    /\ exibido.resultados = "vazio"

\* C12: whenever the saved-games table is not empty (and so can be exported), its
\* columns are exactly Hora, Liga, Mandante, Visitante, Sugestão HT, Sugestão FT and
\* Data Salvamento.
C12_ColunasSalvas ==
    Len(saved_games.linhas) > 0 => saved_games.colunas = ColunasJogosSalvos

\* C13: gerar_ranking returns the single row of "N/A" whenever no player of the table
\* has jogos_total >= min_jogos, for every table the statistics engine returns, the
\* empty table of an empty match table included.
C13_PlaceholderNA ==
    (pc = "ranking"
     /\ \A i \in 1..Len(df_stats_all_players) :
           df_stats_all_players[i].c.jogos_total < ranking.pedido.min_jogos)
    => /\ ranking.levanta = ""
       /\ ranking.linhas = <<LinhaNA>>

\* The row of the engine's table for the player of a ranking row.
LinhaDoJogador(nome) ==
    CHOOSE row \in {df_stats_all_players[i] : i \in 1..Len(df_stats_all_players)} :
        row.Jogador = nome

\* Row a is strictly better than row b for the ranking asked.
MelhorQue(a, b) ==
    IF ranking.pedido.ascendente
    THEN Menor(ValorMetrica(a, ranking.pedido.metrica), ValorMetrica(b, ranking.pedido.metrica))
    ELSE Menor(ValorMetrica(b, ranking.pedido.metrica), ValorMetrica(a, ranking.pedido.metrica))

\* The players of the rows of the ranking.
NoRanking == {ranking.linhas[i].Jogador.nome : i \in 1..Len(ranking.linhas)}

\* C14: when at least one player qualifies, the ranking has at most top_n rows, each of
\* a player with jogos_total >= min_jogos, in the order of the metric (descending, or
\* ascending when ascendente), and no qualifying player left out is strictly better
\* than one in the ranking.
C14_Ranking ==
    (pc = "ranking"
     /\ \E i \in 1..Len(df_stats_all_players) :
           df_stats_all_players[i].c.jogos_total >= ranking.pedido.min_jogos)
    => /\ ranking.levanta = ""
       /\ Len(ranking.linhas) <= ranking.pedido.top_n
       /\ \A i \in 1..Len(ranking.linhas) :
             /\ \E j \in 1..Len(df_stats_all_players) :
                   df_stats_all_players[j].Jogador = ranking.linhas[i].Jogador.nome
             /\ LinhaDoJogador(ranking.linhas[i].Jogador.nome).c.jogos_total
                    >= ranking.pedido.min_jogos
             /\ ranking.linhas[i].jogos_total
                    = LinhaDoJogador(ranking.linhas[i].Jogador.nome).c.jogos_total
       /\ \A i \in 1..(Len(ranking.linhas) - 1) :
             ~MelhorQue(LinhaDoJogador(ranking.linhas[i + 1].Jogador.nome),
                        LinhaDoJogador(ranking.linhas[i].Jogador.nome))
       /\ \A j \in 1..Len(df_stats_all_players) :
             (df_stats_all_players[j].c.jogos_total >= ranking.pedido.min_jogos
              /\ df_stats_all_players[j].Jogador \notin NoRanking)
             => \A i \in 1..Len(ranking.linhas) :
                   ~MelhorQue(df_stats_all_players[j],
                              LinhaDoJogador(ranking.linhas[i].Jogador.nome))

\* Three players qualify for a ranking of two: the two rows differ in the metric and
\* the player left out is strictly worse than both.
C14_Witness ==
    /\ pc = "ranking"
    /\ ranking.levanta = ""
    /\ Len(df_stats_all_players) = 3
    /\ ranking.pedido.min_jogos = 1
    /\ ranking.pedido.top_n = 2
    /\ Len(ranking.linhas) = 2
    /\ MelhorQue(LinhaDoJogador(ranking.linhas[1].Jogador.nome),
                 LinhaDoJogador(ranking.linhas[2].Jogador.nome))
    /\ \E j \in 1..3 :
          /\ df_stats_all_players[j].Jogador \notin NoRanking
          /\ MelhorQue(LinhaDoJogador(ranking.linhas[2].Jogador.nome), df_stats_all_players[j])

\* The full-time goals of a player and of the opponent in a match of the player.
GolsFTDoJogador(r, jogador) == IF r.Mandante = jogador THEN r.Mandante_FT ELSE r.Visitante_FT

GolsFTDoAdversario(r, jogador) == IF r.Mandante = jogador THEN r.Visitante_FT ELSE r.Mandante_FT

\* C15: after the pass of calcular_estatisticas_todos_jogadores over the match table,
\* for every player vitorias + derrotas + empates = jogos_total, each match of the
\* player adds exactly one win (more FT goals than the opponent), loss (fewer) or draw
\* (equal), and clean_sheets is the number of the player's matches in which the
\* opponent's FT goals are 0.
C15_ResultadosPorPartida ==
    pc \in {"stats", "analise"} =>
        \A i \in 1..Len(df_stats_all_players) :
            LET c == df_stats_all_players[i].c
                j == df_stats_all_players[i].Jogador
                rows == PartidasDoJogador(df_resultados, j)
            IN  /\ c.vitorias + c.derrotas + c.empates = c.jogos_total
                /\ c.jogos_total = Len(rows)
                /\ c.vitorias = Len(SelectSeq(rows, LAMBDA r :
                                     GolsFTDoJogador(r, j) > GolsFTDoAdversario(r, j)))
                /\ c.derrotas = Len(SelectSeq(rows, LAMBDA r :
                                     GolsFTDoJogador(r, j) < GolsFTDoAdversario(r, j)))
                /\ c.empates = Len(SelectSeq(rows, LAMBDA r :
                                    GolsFTDoJogador(r, j) = GolsFTDoAdversario(r, j)))
                /\ c.clean_sheets = Len(SelectSeq(rows, LAMBDA r :
                                         GolsFTDoAdversario(r, j) = 0))

\* The leagues present in the match table.
LigasDaTabela == {df_resultados.linhas[i].Liga : i \in 1..Len(df_resultados.linhas)}

\* The sum of counter k of calcular_estatisticas_jogador(table, jogador, l) over the
\* leagues l of the set ls.
RECURSIVE SomaPorLiga(_, _, _)
SomaPorLiga(ls, jogador, k) ==
    IF ls = {} THEN 0
    ELSE LET l == CHOOSE x \in ls : TRUE
         IN  stats_jogador[<<jogador, l>>][k] + SomaPorLiga(ls \ {l}, jogador, k)

\* C16: for every player of the match table, the sum over the leagues of the table of
\* calcular_estatisticas_jogador(table, player, league) has the same jogos_total, goal
\* sums, Over hit counters and BTTS HT/FT hit counters as the player's row of
\* calcular_estatisticas_todos_jogadores(table).
C16_SomaDasLigas ==
    pc \in {"stats", "analise"} =>
        \A i \in 1..Len(df_stats_all_players) :
            \A k \in DOMAIN zeros :
                SomaPorLiga(LigasDaTabela, df_stats_all_players[i].Jogador, k)
                    = df_stats_all_players[i].c[k]

\* Ana has played in two leagues, with goals and hits in each, and both scans have run.
C16_Witness ==
    /\ pc = "stats"
    /\ LigasDaTabela = Ligas
    /\ \A l \in Ligas : /\ stats_jogador[<<"Ana", l>>].jogos_total > 0
                        /\ stats_jogador[<<"Ana", l>>].over_15_ft_hits > 0
                        /\ stats_jogador[<<"Ana", l>>].gols_marcados > 0
    /\ \E i \in 1..Len(df_stats_all_players) :
          /\ df_stats_all_players[i].Jogador = "Ana"
          /\ df_stats_all_players[i].c.jogos_total = MaxJogos

\* The rows of the live page that carregar_dados_ao_vivo keeps: those whose competition
\* is one of the permitted names.
LinhasPermitidas ==
    SelectSeq(linhas_ao_vivo.linhas, LAMBDA l : l.Competicao \in COMPETICOES_PERMITIDAS)

\* C17: every row of the two tables of carregar_dados_ao_vivo comes from a live row whose
\* competition (column index 3) is one of the 4 permitted names, every other live row
\* is dropped, each Liga is one of the 4 canonical names, and the numeric table and the
\* display table hold the same matches in the same order.
C17_ApenasPermitidas ==
    pc \in {"ao_vivo", "stats", "falha"} =>
        /\ Len(df_live_clean) \in {0, Len(LinhasPermitidas)}
        /\ Len(df_live_clean) > 0 => linhas_ao_vivo.largura >= 4
        /\ \A i \in 1..Len(df_live_clean) :
              /\ df_live_clean[i].Hora = LinhasPermitidas[i].Hora
              /\ df_live_clean[i].Mandante = extrair_jogadores(LinhasPermitidas[i].Confronto)[1]
              /\ df_live_clean[i].Visitante = extrair_jogadores(LinhasPermitidas[i].Confronto)[2]
              /\ df_live_clean[i].Liga \in {"H2H 8 Min", "Volta 6 Min", "GT 12 Min", "Battle 8 Min"}
              /\ (df_live_clean[i].Liga = "H2H 8 Min")
                    = (LinhasPermitidas[i].Competicao = "E-soccer - H2H GG League - 8 minutos de jogo")
              /\ (df_live_clean[i].Liga = "Volta 6 Min")
                    = (LinhasPermitidas[i].Competicao = "Esoccer Battle Volta - 6 Minutos de Jogo")
              /\ (df_live_clean[i].Liga = "GT 12 Min")
                    = (LinhasPermitidas[i].Competicao = "E-soccer - GT Leagues - 12 mins de jogo")
        /\ Len(df_live_display) = Len(df_live_clean)
        /\ \A i \in 1..Len(df_live_display) :
              /\ df_live_display[i].Hora = df_live_clean[i].Hora
              /\ df_live_display[i].Liga = df_live_clean[i].Liga
              /\ df_live_display[i].Mandante = df_live_clean[i].Mandante
              /\ df_live_display[i].Visitante = df_live_clean[i].Visitante

\* A page of two permitted rows gave two rows in each table, and a page with a row of
\* another competition lost it.
C17_Witness ==
    /\ pc = "ao_vivo"
    /\ Len(linhas_ao_vivo.linhas) = 3
    /\ Len(df_live_display) = 2
    /\ df_live_display[1].Liga = "GT 12 Min" /\ df_live_display[1].Mandante = "Caio"
    /\ df_live_display[2].Liga = "Volta 6 Min" /\ df_live_display[2].Mandante = "Ana"
    /\ df_live_clean[2].Liga = "Volta 6 Min"

\* The sum of the column campo over the rows.
RECURSIVE SomaCampo(_, _)
SomaCampo(rows, campo) ==
    IF Len(rows) = 0 THEN 0 ELSE Head(rows)[campo] + SomaCampo(Tail(rows), campo)

\* The rows of the results table in which the player is mandante (visitante) in a league.
ComoMandante(jogador, liga) ==
    SelectSeq(df_resultados.linhas, LAMBDA r : r.Mandante = jogador /\ r.Liga = liga)

ComoVisitante(jogador, liga) ==
    SelectSeq(df_resultados.linhas, LAMBDA r : r.Visitante = jogador /\ r.Liga = liga)

Jogos(jogador, liga) == Len(ComoMandante(jogador, liga)) + Len(ComoVisitante(jogador, liga))

\* The full-time goals a player scored and conceded in the matches of a league.
GolsMarcadosFT(jogador, liga) ==
    SomaCampo(ComoMandante(jogador, liga), "Mandante_FT")
        + SomaCampo(ComoVisitante(jogador, liga), "Visitante_FT")

GolsSofridosFT(jogador, liga) ==
    SomaCampo(ComoMandante(jogador, liga), "Visitante_FT")
        + SomaCampo(ComoVisitante(jogador, liga), "Mandante_FT")

\* C18: for each live row GP is (the mandante's FT scored average + the visitante's FT
\* conceded average) / 2 and GC is (the visitante's scored average + the mandante's
\* conceded average) / 2, over the matches of each player in the league of the row;
\* when either has no match in that league (the empty names of an unmatched Confronto
\* included) GP = GC = 0, and the row is kept: nothing is divided by zero.
C18_GPeGC ==
    pc \in {"ao_vivo", "stats", "falha"} =>
        /\ (linhas_ao_vivo.largura >= 4 /\ (DfEmpty(df_resultados) \/ df_resultados.colunas = ordem))
               => ~erro_ao_vivo /\ Len(df_live_clean) = Len(LinhasPermitidas)
        /\ \A i \in 1..Len(df_live_clean) :
              LET r == df_live_clean[i]
                  jm == Jogos(r.Mandante, r.Liga)
                  jv == Jogos(r.Visitante, r.Liga)
              IN  IF jm = 0 \/ jv = 0
                  THEN r.GP.n = 0 /\ r.GC.n = 0 /\ r.GP.d > 0 /\ r.GC.d > 0
                  ELSE /\ r.GP.d > 0 /\ r.GC.d > 0
                       /\ r.GP.n * (2 * jm * jv)
                             = r.GP.d * (GolsMarcadosFT(r.Mandante, r.Liga) * jv
                                          + GolsSofridosFT(r.Visitante, r.Liga) * jm)
                       /\ r.GC.n * (2 * jm * jv)
                             = r.GC.d * (GolsMarcadosFT(r.Visitante, r.Liga) * jv
                                          + GolsSofridosFT(r.Mandante, r.Liga) * jm)

\* A live row whose two players have matches in its league, with GP above GC.
C18_Witness ==
    /\ pc = "ao_vivo"
    /\ \E i \in 1..Len(df_live_clean) :
          /\ Jogos(df_live_clean[i].Mandante, df_live_clean[i].Liga) = 2
          /\ Jogos(df_live_clean[i].Visitante, df_live_clean[i].Liga) = 2
          /\ df_live_clean[i].GP.n > 0
          /\ df_live_clean[i].GP.n * df_live_clean[i].GC.d
                > df_live_clean[i].GC.n * df_live_clean[i].GP.d

\* C19: the hint of a player is "<player>  1.5 Gols" for an average from 2.30 to 3.39,
\* "<player>  2.5 Gols" from 3.40 to 4.50 and "Instável" outside the two bands; the
\* bands are contiguous, so no average from 2.30 to 4.50, at any precision, gives
\* "Instável".
C19_FaixasContiguas ==
    hint.texto # "" =>
        /\ (2300 <= hint.milesimos /\ hint.milesimos <= 3390)
               => hint.texto = hint.jogador \o "  1.5 Gols"
        /\ (3400 <= hint.milesimos /\ hint.milesimos <= 4500)
               => hint.texto = hint.jogador \o "  2.5 Gols"
        /\ (hint.milesimos < 2300 \/ hint.milesimos > 4500) => hint.texto = "Instável"
        /\ (2300 <= hint.milesimos /\ hint.milesimos <= 4500) => hint.texto # "Instável"

\* The matches of a player in the window of the prediction.
JanelaDoJogador(player) ==
    SelectSeq(df_recente(df_resultados), LAMBDA r : r.Mandante = player \/ r.Visitante = player)

\* The hits of a player in a market within the window.
AcertosNaJanela(player, mercado) ==
    Len(SelectSeq(JanelaDoJogador(player), LAMBDA r : Condicao(mercado, r, player)))

\* A Data cell dd/mm as a day of the year: 100 * mm + dd.
DiaDoAno(txt) == 100 * ValorDigitos(SubSeq(txt, 4, 5)) + ValorDigitos(SubSeq(txt, 1, 2))

\* The date of the most recent match of a player in the window.
UltimaData(player) ==
    LET dias == {DiaDoAno(JanelaDoJogador(player)[i].Data) : i \in 1..Len(JanelaDoJogador(player))}
    IN  CHOOSE d \in dias : \A x \in dias : x <= d

\* The players of the window.
JogadoresDaJanela ==
    {df_recente(df_resultados)[i].Mandante : i \in 1..Len(df_recente(df_resultados))}
    \cup {df_recente(df_resultados)[i].Visitante : i \in 1..Len(df_recente(df_resultados))}

\* The streak generate_ai_prediction computes for a player and a market.
SequenciaDoPar(player, mercado) ==
    LacoMercado(player_matches(df_recente(df_resultados), player), mercado, player).seq

\* C20, but for the order of the list: every entry has streak >= 3 and hit-rate >= 70%
\* within the window of its player and score = streak x weight x (hit-rate / 100), and
\* every player/market pair that meets both thresholds has an entry.
C20_EntradasEScore ==
    pc = "previsao" =>
        /\ \A i \in 1..Len(previsao) :
              LET e == previsao[i]
                  n == Len(JanelaDoJogador(e.Jogador))
                  h == AcertosNaJanela(e.Jogador, e.Mercado)
              IN  /\ e.Sequencia >= 3
                  /\ n > 0 /\ 100 * h >= 70 * n
                  /\ e.Score.n * (10 * n) = e.Score.d * (e.Sequencia * Peso10(e.Mercado) * h)
        /\ \A p \in JogadoresDaJanela : \A k \in 1..Len(Mercados) :
              (SequenciaDoPar(p, Mercados[k]) >= 3
               /\ 100 * AcertosNaJanela(p, Mercados[k]) >= 70 * Len(JanelaDoJogador(p)))
              => \E i \in 1..Len(previsao) :
                    previsao[i].Jogador = p /\ previsao[i].Mercado = Mercados[k]

\* C20: every entry generate_ai_prediction retains has streak >= 3 and hit-rate >= 70%
\* within the window of its player, its score is streak x market weight x
\* (hit-rate / 100), every player/market pair meeting both thresholds is retained, and
\* the entries are listed by score descending, equal scores by the most recent match
\* date descending.
C20_PrevisaoOrdenada ==
    /\ C20_EntradasEScore
    /\ pc = "previsao" =>
          \A i \in 1..(Len(previsao) - 1) :
              /\ ~Menor(previsao[i].Score, previsao[i + 1].Score)
              /\ ~Menor(previsao[i + 1].Score, previsao[i].Score)
                    => UltimaData(previsao[i].Jogador) >= UltimaData(previsao[i + 1].Jogador)

\* The current streak of a player in a market: the hits at the head of player_matches
\* (the most recent match first), up to the first miss.
RECURSIVE SequenciaAtual(_, _, _)
SequenciaAtual(rows, mercado, player) ==
    IF Len(rows) = 0 \/ ~Condicao(mercado, Head(rows), player) THEN 0
    ELSE 1 + SequenciaAtual(Tail(rows), mercado, player)

\* C21: the streak generate_ai_prediction reports for a player and a market is the
\* current streak: the number of consecutive hits ending at the most recent match of
\* the player in the window, 0 when that match is a miss; a run of hits that was
\* broken since is not reported.
C21_SequenciaAtual ==
    pc = "previsao" =>
        \A i \in 1..Len(previsao) :
            previsao[i].Sequencia
                = SequenciaAtual(player_matches(df_recente(df_resultados), previsao[i].Jogador),
                                 previsao[i].Mercado, previsao[i].Jogador)

\* The records of the match table with the players of row lin of the analysis, in the
\* same order.
RegistrosDoJogo(lin) ==
    {df_resultados.linhas[i] : i \in {j \in 1..Len(df_resultados.linhas) :
        /\ df_resultados.linhas[j].Mandante = lin.Jogo[1]
        /\ df_resultados.linhas[j].Visitante = lin.Jogo[2]}}

\* C22: every analysed row of the results analysis shows the score of a record of its
\* player pair whose date is the most recent of the pair's records, whatever the
\* order of the rows of the match table.
C22_RegistroMaisRecente ==
    (analise.feita /\ analise.erro = "") =>
        \A i \in 1..Len(analise.df_results) :
            LET lin == analise.df_results[i]
            IN  lin.Resultado_FT.texto = "placar" =>
                    \E r \in RegistrosDoJogo(lin) :
                        /\ \A x \in RegistrosDoJogo(lin) : DiaDoAno(x.Data) <= DiaDoAno(r.Data)
                        /\ lin.Resultado_HT.m = r.Mandante_HT /\ lin.Resultado_HT.v = r.Visitante_HT
                        /\ lin.Resultado_FT.m = r.Mandante_FT /\ lin.Resultado_FT.v = r.Visitante_FT

\* The N of the suggestions "Over N.5 HT" and "Over N.5 FT".
InteiroDaSugestao ==
    [s \in SugestoesOver |->
        CASE s \in {"Over 0.5 HT", "Over 0.5 FT"} -> 0
          [] s \in {"Over 1.5 HT", "Over 1.5 FT"} -> 1
          [] s \in {"Over 2.5 HT", "Over 2.5 FT"} -> 2
          [] s = "Over 3.5 FT" -> 3
          [] s = "Over 4.5 FT" -> 4
          [] s = "Over 5.5 FT" -> 5]

\* C23: calculate_profit returns 0 for an empty suggestion and for "Sem Entrada"; for
\* "Over N.5 HT" or "Over N.5 FT" it returns odd - 1 when the total is above N and -1
\* otherwise, so the bet is green exactly when the total is above N, and it is green,
\* red or neither alike at every odd from 1.50 to 3.00.
C23_LucroDaAposta ==
    lucro.feito =>
        /\ lucro.suggestion \in {"", "Sem Entrada"} => \A o \in Odds : lucro.valores[o] = 0
        /\ lucro.suggestion \in SugestoesOver =>
              \A o \in Odds :
                  /\ lucro.valores[o] = IF lucro.actual_score > InteiroDaSugestao[lucro.suggestion]
                                        THEN o - 100 ELSE -100
                  /\ lucro.valores[o] > 0 <=> lucro.actual_score > InteiroDaSugestao[lucro.suggestion]
                  /\ lucro.valores[o] < 0 <=> lucro.actual_score <= InteiroDaSugestao[lucro.suggestion]
        /\ \A o1, o2 \in Odds :
              /\ lucro.valores[o1] > 0 <=> lucro.valores[o2] > 0
              /\ lucro.valores[o1] < 0 <=> lucro.valores[o2] < 0

\* C23 witness: "Over 2.5 FT" with three goals and with two, and "Sem Entrada".
C23_Witness ==
    /\ lucro.feito
    /\ lucro.suggestion = "Over 2.5 FT"
    /\ lucro.actual_score = 3
    /\ lucro.valores[150] = 50
    /\ lucro.valores[300] = 200

\* C26: the Greens and Reds of the final summary count games of its "Total de Jogos
\* Analisados": Greens HT + Reds HT and Greens FT + Reds FT are at most the total.
C26_GreensERedsNoTotal ==
    (analise.feita /\ analise.erro = "") =>
        /\ analise.resumo.Greens_HT + analise.resumo.Reds_HT <= analise.resumo.Total
        /\ analise.resumo.Greens_FT + analise.resumo.Reds_FT <= analise.resumo.Total

\* Row r of the saved games is row g of the grid of the live tab.
MesmoJogo(r, g) ==
    /\ r.Hora = g.Hora /\ r.Liga = g.Liga
    /\ r.Mandante = g.Mandante /\ r.Visitante = g.Visitante
    /\ r.Sugestao_HT = g.Sugestao_HT /\ r.Sugestao_FT = g.Sugestao_FT

\* The k-th smallest member of the set S of row numbers.
Kesimo(S, k) == CHOOSE i \in S : Cardinality({j \in S : j < i}) = k - 1

\* C24: a step changes the saved games only when it is "Salvar Jogos Selecionados"
\* with rows ticked, after which the table holds exactly the ticked rows of the grid
\* in the order of the grid, or "Limpar Todos os Jogos Salvos", after which it is
\* empty; a refresh, the results analysis and a save with no row ticked leave it as
\* it was.
C24_SoPorAcaoDoUsuario ==
    [][/\ aviso'.texto \in {"", "analise", "Nenhum resultado encontrado",
                            "Nenhum jogo selecionado", "Erro"}
            => saved_games' = saved_games
       /\ aviso'.texto = "jogos salvos"
            => /\ aviso'.n > 0
               /\ \E S \in SUBSET (1..Len(df_live_display)) :
                     /\ Cardinality(S) = aviso'.n
                     /\ Len(saved_games'.linhas) = aviso'.n
                     /\ \A k \in 1..aviso'.n :
                           MesmoJogo(saved_games'.linhas[k], df_live_display[Kesimo(S, k)])
       /\ aviso'.texto = "removidos" => saved_games'.linhas = <<>>
       /\ aviso'.texto \in {"", "analise", "Nenhum resultado encontrado",
                            "Nenhum jogo selecionado", "Erro", "jogos salvos", "removidos"}
      ]_vars

\* C24 witness: one of the two rows of the grid was saved, and the analysis has then
\* been drawn with the saved game still in the table.
C24_Witness ==
    /\ Len(df_live_display) = 2
    /\ Len(saved_games.linhas) = 1
    /\ MesmoJogo(saved_games.linhas[1], df_live_display[2])
    /\ ~MesmoJogo(saved_games.linhas[1], df_live_display[1])
    /\ aviso.texto = "analise"
    /\ analise.feita

\* The goals a player scored and conceded at half time in a league.
GolsMarcadosHT(jogador, liga) ==
    SomaCampo(ComoMandante(jogador, liga), "Mandante_HT")
        + SomaCampo(ComoVisitante(jogador, liga), "Visitante_HT")

GolsSofridosHT(jogador, liga) ==
    SomaCampo(ComoMandante(jogador, liga), "Visitante_HT")
        + SomaCampo(ComoVisitante(jogador, liga), "Mandante_HT")

\* C25: in every live row whose two players have matches in the league of the row,
\* "Gols FT" is GP + GC and is half the sum of the two players' own scored and
\* conceded full-time averages, the shape "Gols HT" has with the half-time averages;
\* when exactly one of the two has no match there, GP and GC are 0 and "Gols FT" is
\* half the sum of the scored and conceded averages of the other.
C25_GolsFT ==
    pc \in {"ao_vivo", "stats", "falha"} =>
        \A i \in 1..Len(df_live_clean) :
            LET r == df_live_clean[i]
                jm == Jogos(r.Mandante, r.Liga)
                jv == Jogos(r.Visitante, r.Liga)
                com == IF jm > 0 THEN r.Mandante ELSE r.Visitante
                jc == IF jm > 0 THEN jm ELSE jv
            IN  /\ r.Gols_FT.d > 0 /\ r.Gols_HT.d > 0
                /\ (jm >= 1 /\ jv >= 1) =>
                      /\ r.Gols_FT.n * (r.GP.d * r.GC.d)
                            = r.Gols_FT.d * (r.GP.n * r.GC.d + r.GC.n * r.GP.d)
                      /\ r.Gols_FT.n * (2 * jm * jv)
                            = r.Gols_FT.d
                                * ((GolsMarcadosFT(r.Mandante, r.Liga)
                                      + GolsSofridosFT(r.Mandante, r.Liga)) * jv
                                   + (GolsMarcadosFT(r.Visitante, r.Liga)
                                      + GolsSofridosFT(r.Visitante, r.Liga)) * jm)
                      /\ r.Gols_HT.n * (2 * jm * jv)
                            = r.Gols_HT.d
                                * ((GolsMarcadosHT(r.Mandante, r.Liga)
                                      + GolsSofridosHT(r.Mandante, r.Liga)) * jv
                                   + (GolsMarcadosHT(r.Visitante, r.Liga)
                                      + GolsSofridosHT(r.Visitante, r.Liga)) * jm)
                /\ ((jm = 0) # (jv = 0)) =>
                      /\ r.GP.n = 0 /\ r.GC.n = 0
                      /\ r.Gols_FT.n * (2 * jc)
                            = r.Gols_FT.d * (GolsMarcadosFT(com, r.Liga) + GolsSofridosFT(com, r.Liga))

\* C25 witness: a live row whose two players have matches in its league, with "Gols FT"
\* above GP and GP above 0, and a live row in which only one player has matches, with
\* GP = GC = 0 and "Gols FT" above 0.
C25_Witness ==
    /\ pc = "ao_vivo"
    /\ \E i \in 1..Len(df_live_clean) :
          LET r == df_live_clean[i]
          IN  /\ Jogos(r.Mandante, r.Liga) >= 1 /\ Jogos(r.Visitante, r.Liga) >= 1
              /\ r.GP.n > 0 /\ r.GC.n > 0
              /\ r.Gols_FT.n * r.GP.d > r.GP.n * r.Gols_FT.d
    /\ \E i \in 1..Len(df_live_clean) :
          LET r == df_live_clean[i]
          IN  /\ (Jogos(r.Mandante, r.Liga) = 0) # (Jogos(r.Visitante, r.Liga) = 0)
              /\ r.GP.n = 0 /\ r.GC.n = 0
              /\ r.Gols_FT.n > 0

\* C27: every row of the prediction has a score from 0 to 10, the scale its
\* "Score: x/10" text names.
C27_ScoreAte10 ==
    pc = "previsao" =>
        \A i \in 1..Len(previsao) :
            /\ previsao[i].Score.d > 0
            /\ previsao[i].Score.n >= 0
            /\ previsao[i].Score.n <= 10 * previsao[i].Score.d

\* The rows of the last-20 windows in which a player played in a league.
JanelaNaLiga(player, liga) ==
    SelectSeq(df_recente(df_resultados),
              LAMBDA r : (r.Mandante = player \/ r.Visitante = player) /\ r.Liga = liga)

\* C28: every row of the prediction counts only matches of the league it names:
\* "Jogos Analisados" is the number of window matches of the player in that league,
\* the streak is not longer than that, and the hit-rate is the share of hits among
\* those matches.
C28_SoDaLigaDaEntrada ==
    pc = "previsao" =>
        \A i \in 1..Len(previsao) :
            LET e == previsao[i]
                rows == JanelaNaLiga(e.Jogador, e.Liga)
                acertos == Cardinality({k \in 1..Len(rows) : Condicao(e.Mercado, rows[k], e.Jogador)})
            IN  /\ e.Jogos_Analisados = Len(rows)
                /\ e.Sequencia <= acertos
                /\ e.Taxa = Formata0([n |-> 100 * acertos, d |-> Len(rows)])

\* The sum of one counter over the first n rows of df_stats_all_players.
RECURSIVE SomaDosJogadores(_, _)
SomaDosJogadores(campo, n) ==
    IF n = 0 THEN 0
    ELSE SomaDosJogadores(campo, n - 1) + df_stats_all_players[n].c[campo]

TotalDosJogadores(campo) == SomaDosJogadores(campo, Len(df_stats_all_players))

\* C29: after the pass of calcular_estatisticas_todos_jogadores over a match table (each
\* prefix of a table is itself a table of the specification), the sum of jogos_total
\* is twice the number of rows, the wins are as many as the losses, the draws are an
\* even number, and the goals scored are the goals conceded, at full and at half time.
C29_TotaisConservados ==
    pc = "stats" =>
        /\ TotalDosJogadores("jogos_total") = 2 * Len(df_resultados.linhas)
        /\ TotalDosJogadores("vitorias") = TotalDosJogadores("derrotas")
        /\ TotalDosJogadores("empates") % 2 = 0
        /\ TotalDosJogadores("vitorias") + TotalDosJogadores("derrotas")
             + TotalDosJogadores("empates") = 2 * Len(df_resultados.linhas)
        /\ TotalDosJogadores("gols_marcados") = TotalDosJogadores("gols_sofridos")
        /\ TotalDosJogadores("gols_marcados_ht") = TotalDosJogadores("gols_sofridos_ht")

\* C29 witness: a pass over three matches, with a win, a draw and goals at half time.
C29_Witness ==
    /\ pc = "stats"
    /\ Len(df_resultados.linhas) = 3
    /\ Len(df_stats_all_players) >= 2
    /\ TotalDosJogadores("jogos_total") = 6
    /\ TotalDosJogadores("vitorias") >= 1
    /\ TotalDosJogadores("empates") >= 2
    /\ TotalDosJogadores("gols_marcados_ht") >= 1

\* The hit counters of the record c of a player with games matches are nested.
Aninhados(c, games) ==
    /\ 0 <= c.over_65_ft_hits
    /\ c.over_65_ft_hits <= c.over_55_ft_hits
    /\ c.over_55_ft_hits <= c.over_45_ft_hits
    /\ c.over_45_ft_hits <= c.over_35_ft_hits
    /\ c.over_35_ft_hits <= c.over_25_ft_hits
    /\ c.over_25_ft_hits <= c.over_15_ft_hits
    /\ c.over_15_ft_hits <= c.over_05_ft_hits
    /\ c.over_05_ft_hits <= games
    /\ 0 <= c.over_25_ht_hits
    /\ c.over_25_ht_hits <= c.over_15_ht_hits
    /\ c.over_15_ht_hits <= c.over_05_ht_hits
    /\ c.over_05_ht_hits <= games
    /\ 0 <= c.btts_ft_hits /\ c.btts_ft_hits <= c.over_15_ft_hits
    /\ 0 <= c.btts_ht_hits /\ c.btts_ht_hits <= c.over_15_ht_hits

\* C30: the hit counters of every record of calcular_estatisticas_jogador, of
\* calcular_estatisticas_todos_jogadores and of get_recent_player_stats are nested:
\* 6.5 <= 5.5 <= ... <= 0.5 <= games at full time, 2.5 <= 1.5 <= 0.5 <= games at half
\* time, and the BTTS hits are at most the Over 1.5 hits of the same period.
C30_ContadoresAninhados ==
    /\ \A q \in Consultas : Aninhados(stats_jogador[q], stats_jogador[q].jogos_total)
    /\ \A i \in 1..Len(df_stats_all_players) :
          Aninhados(df_stats_all_players[i].c, df_stats_all_players[i].c.jogos_total)
    /\ \A q \in Janelas : Aninhados(recent[q].stats, recent[q].stats.jogos_recentes)

\* C30 witness: the three functions have run and each has a record with a BTTS hit at
\* full time, more Over 0.5 hits than Over 2.5 hits and fewer Over 0.5 hits than games.
C30_Witness ==
    /\ \E q \in Consultas :
          /\ stats_jogador[q].btts_ft_hits >= 1
          /\ stats_jogador[q].over_25_ft_hits < stats_jogador[q].over_05_ft_hits
          /\ stats_jogador[q].over_05_ft_hits < stats_jogador[q].jogos_total
    /\ \E i \in 1..Len(df_stats_all_players) :
          /\ df_stats_all_players[i].c.btts_ft_hits >= 1
          /\ df_stats_all_players[i].c.over_25_ft_hits < df_stats_all_players[i].c.over_05_ft_hits
          /\ df_stats_all_players[i].c.over_05_ft_hits < df_stats_all_players[i].c.jogos_total
    /\ \E q \in Janelas :
          /\ recent[q].stats.btts_ft_hits >= 1
          /\ recent[q].stats.over_25_ft_hits < recent[q].stats.over_05_ft_hits
          /\ recent[q].stats.over_05_ft_hits < recent[q].stats.jogos_recentes

====
